---------------------------- MODULE Spec2Model ----------------------------
(***************************************************************************)
(* Local-first persistence of the sticker catalog: the IndexedDB object   *)
(* store wrapped by services/storage, and the App handlers that create,   *)
(* save, delete, swap, download and import collections.                    *)
(*                                                                         *)
(* A collection record keeps the fields the handlers read or write:       *)
(*   id        the key of the object store (keyPath 'id'); NoId stands    *)
(*             for a value with no valid key at the key path               *)
(*   order     <<>> when the property is absent, <<n>> when it is n       *)
(*   createdAt the creation timestamp                                      *)
(*   itemCount the declared number of items                                *)
(*   items     the sequence of items; an item has an id, its originalOrder,*)
(*             a name and an imageUrl, NoImage when no image is attached   *)
(*   title     stands for every other field of the record                  *)
(***************************************************************************)
EXTENDS Integers, Sequences, FiniteSets, TLC

\* ------------------------------------------------------------------ bounds
MaxClock == 5
MaxOrder == 2
MaxTasks == 2
MaxBatch == 2
MaxOps == 3

\* the gist ids the server hands out
MaxGists == 2

\* the largest of COUNT_OPTIONS, which are 1..MaxCount here
MaxCount == 3

\* the largest width and height of an image, and the largest maxWidth
MaxSide == 3

\* the operations of a session that go to the grid of the editor
MaxEdits == 5

\* ----------------------------------------------------------------- records
NoId == 0
NoOrder == << >>

\* null for the selected item
NoItem == << >>

\* imageUrl is absent
NoImage == [format |-> "none"]

\* an item without image, named `Image ${n}`
Item(i, n) == [id |-> i, originalOrder |-> n, name |-> n, imageUrl |-> NoImage]

\* `if (sticker.imageUrl)`: an image is attached
HasImage(sticker) == sticker.imageUrl # NoImage

\* a record with no items
Rec(i, o, c, t) ==
  [id |-> i, order |-> o, createdAt |-> c, title |-> t,
   itemCount |-> 0, items |-> << >>]

WithItems(r, n, items) == [r EXCEPT !.itemCount = n, !.items = items]

HasOrder(r) == r.order # NoOrder

\* `s.order || 0`
OrZero(r) == IF HasOrder(r) THEN r.order[1] ELSE 0

\* a value whose key path 'id' yields a valid key
HasKey(r) == r.id # NoId

WithOrder(r, n) == [r EXCEPT !.order = <<n>>]

SeqToSet(s) == {s[i] : i \in 1..Len(s)}

IdsOf(s) == {s[i].id : i \in 1..Len(s)}

\* findIndex: the first index whose record has the id, 0 for -1
FindIndex(s, i) ==
  IF \E k \in 1..Len(s) : s[k].id = i
  THEN CHOOSE k \in 1..Len(s) : s[k].id = i /\ \A j \in 1..(k-1) : s[j].id # i
  ELSE 0

\* --------------------------------------------------- Array.prototype.sort
\* the comparator of getAllStickerSets
CmpGetAll(a, b) ==
  IF HasOrder(a) /\ HasOrder(b)
  THEN a.order[1] - b.order[1]
  ELSE b.createdAt - a.createdAt

\* the comparator of handleSwapClick
CmpSwap(a, b) == OrZero(a) - OrZero(b)

Cmp(mode, a, b) == IF mode = "getAll" THEN CmpGetAll(a, b) ELSE CmpSwap(a, b)

\* binary insertion: the position of pivot in the sorted prefix s[left+1..right]
RECURSIVE BinPos(_, _, _, _, _)
BinPos(mode, s, pivot, left, right) ==
  IF left >= right THEN left
  ELSE LET mid == left + ((right - left) \div 2)
       IN  IF Cmp(mode, pivot, s[mid + 1]) < 0
           THEN BinPos(mode, s, pivot, left, mid)
           ELSE BinPos(mode, s, pivot, mid + 1, right)

InsertAt(s, pos, x) == SubSeq(s, 1, pos) \o <<x>> \o SubSeq(s, pos + 1, Len(s))

RECURSIVE SortFrom(_, _, _)
SortFrom(mode, s, i) ==
  IF i > Len(s) THEN s
  ELSE LET prefix == SubSeq(s, 1, i - 1)
           pos    == BinPos(mode, prefix, s[i], 0, i - 1)
           placed == InsertAt(prefix, pos, s[i]) \o SubSeq(s, i + 1, Len(s))
       IN  SortFrom(mode, placed, i + 1)

ArraySort(mode, s) == IF Len(s) < 2 THEN s ELSE SortFrom(mode, s, 2)

\* ------------------------------------------------------ the object store
\* the store is a function from the keys present to their records
EmptyStore == [k \in {} |-> Rec(0, NoOrder, 0, 0)]

StorePut(store, r) ==
  [k \in DOMAIN store \cup {r.id} |-> IF k = r.id THEN r ELSE store[k]]

StoreDelete(store, i) == [k \in DOMAIN store \ {i} |-> store[k]]

RECURSIVE StorePutAll(_, _)
StorePutAll(store, batch) ==
  IF batch = << >> THEN store
  ELSE StorePutAll(StorePut(store, Head(batch)), Tail(batch))

\* store.getAll(): the records in ascending key order
RECURSIVE KeyOrdered(_, _)
KeyOrdered(store, keys) ==
  IF keys = {} THEN << >>
  ELSE LET k == CHOOSE x \in keys : \A y \in keys : x <= y
       IN  <<store[k]>> \o KeyOrdered(store, keys \ {k})

StoreGetAll(store) == KeyOrdered(store, DOMAIN store)

\* getAllStickerSets: getAll() then sort with the mixed comparator
GetAllStickerSets(store) == ArraySort("getAll", StoreGetAll(store))

\* the requests saveStickerSets places before a put() throws: put() throws
\* DataError for a value without a valid key, and forEach stops there
RECURSIVE PlacedPuts(_)
PlacedPuts(batch) ==
  IF batch = << >> THEN << >>
  ELSE IF ~HasKey(Head(batch)) THEN << >>
  ELSE <<Head(batch)>> \o PlacedPuts(Tail(batch))

PutThrows(batch) == \E i \in 1..Len(batch) : ~HasKey(batch[i])


\* ------------------------------------------- outcomes of a storage promise
\* how the engine ends a readwrite transaction:
\*   complete  the complete event fires, the writes are committed
\*   reqerror  a request fails, its error event bubbles to the transaction,
\*             the transaction aborts and the writes are rolled back
\*   abort     the commit fails: only the abort event fires, rolled back
Outcomes == {"complete", "reqerror", "abort"}

\* the promise under handlers { oncomplete -> resolve, onerror -> reject }
SettleByTransaction(outcome) ==
  CASE outcome = "complete" -> "resolved"
    [] outcome = "reqerror" -> "rejected"
    [] OTHER                -> "pending"

Committed(store, newStore, outcome) ==
  IF outcome = "complete" THEN newStore ELSE store

saveStickerSet(store, r, outcome) ==
  IF ~HasKey(r)
  THEN [store |-> store, promise |-> "rejected"]
  ELSE [store   |-> Committed(store, StorePut(store, r), outcome),
        promise |-> SettleByTransaction(outcome)]

saveStickerSets(store, batch, outcome) ==
  IF batch = << >>
  THEN [store |-> store, promise |-> "resolved"]
  ELSE IF PutThrows(batch)
  THEN [store   |-> Committed(store, StorePutAll(store, PlacedPuts(batch)), outcome),
        promise |-> "rejected"]
  ELSE [store   |-> Committed(store, StorePutAll(store, batch), outcome),
        promise |-> SettleByTransaction(outcome)]

deleteStickerSet(store, i, outcome) ==
  [store   |-> Committed(store, StoreDelete(store, i), outcome),
   promise |-> SettleByTransaction(outcome)]

\* the transaction completes without having removed anything
clearAllStickerSetsKeeps(store, outcome) ==
  [store   |-> store,
   promise |-> SettleByTransaction(outcome)]

clearAllStickerSets(store, outcome) ==
  [store   |-> Committed(store, EmptyStore, outcome),
   promise |-> SettleByTransaction(outcome)]

\* -------------------------------------------------------------------- JSON
\* the keys JSON.stringify writes for a record: a property that is undefined
\* is left out
JsonKeys(r) ==
  (DOMAIN r \ {"id", "order"}) \cup (IF HasKey(r) THEN {"id"} ELSE {})
                               \cup (IF HasOrder(r) THEN {"order"} ELSE {})

\* the order property is never written
JsonObjectWithoutOrder(r) == [k \in JsonKeys(r) \ {"order"} |-> r[k]]

\* the object JSON.stringify writes for a record
JsonObject(r) ==
  [k \in JsonKeys(r) |-> IF k = "order" THEN r.order[1] ELSE r[k]]

\* JSON.stringify(list, null, 2): the text of an array of objects
JsonStringify(list) ==
  [kind |-> "array", data |-> [i \in 1..Len(list) |-> JsonObject(list[i])]]

\* the record JSON.parse builds from an object of the text
FromJsonObject(o) ==
  [k \in DOMAIN o \cup {"id", "order"} |->
     CASE k = "id"    -> IF "id" \in DOMAIN o THEN o.id ELSE NoId
       [] k = "order" -> IF "order" \in DOMAIN o THEN <<o.order>> ELSE NoOrder
       [] OTHER       -> o[k]]

\* JSON.parse of the text of an array
JsonParse(text) == [i \in 1..Len(text.data) |-> FromJsonObject(text.data[i])]

\* ------------------------------------------------------------------ texts
\* a text is the array JsonStringify writes, or one of
\*   empty   the empty string          blank   white space only
\*   html    a page starting with <!DOCTYPE or <html
\*   object  the JSON of a value that is not an array
\*   cut     the first bytes of the text of an array, not valid JSON
\*   garbage any other text that is not valid JSON
MiB == 1048576

\* the bytes an object takes in the text; title stands for the images
ObjectBytes(o) ==
  CASE o.title = 5  -> 5 * MiB - 2
    [] o.title = 6  -> 5 * MiB - 1
    [] o.title = 10 -> 10 * MiB - 2
    [] o.title = 11 -> 10 * MiB - 1
    [] OTHER        -> 100

RECURSIVE SumBytes(_)
SumBytes(data) ==
  IF data = << >> THEN 0 ELSE ObjectBytes(Head(data)) + SumBytes(Tail(data))

\* new Blob([content]).size
SizeInBytes(text) ==
  CASE text.kind = "array"  -> 2 + SumBytes(text.data)
    [] text.kind = "empty"  -> 0
    [] text.kind = "blank"  -> 3
    [] text.kind = "cut"    -> MiB
    [] OTHER                -> 200

\* ------------------------------------------------------------------ inputs
\* the first clock value of the session; stored records are older
Clock0 == 4

NoRec == Rec(NoId, NoOrder, 0, 0)

StoreOf(s) == StorePutAll(EmptyStore, s)

\* what earlier sessions can have left in the object store
InitialStores ==
  { EmptyStore,
    StoreOf(<<Rec(1, <<0>>, 1, 0), Rec(2, <<1>>, 2, 0), Rec(3, <<2>>, 3, 0)>>),
    StoreOf(<<Rec(1, NoOrder, 1, 0), Rec(2, NoOrder, 2, 0)>>) }

\* the elements a parsed JSON array can carry
FileRecs ==
  { Rec(NoId, <<0>>, 1, 2),
    Rec(1, NoOrder, 1, 2),
    Rec(1, <<1>>, 1, 3) }

\* the elements the array of the remote backup can carry
RemoteRecs ==
  { Rec(NoId, <<0>>, 1, 2),
    Rec(9, NoOrder, 3, 2) }

RECURSIVE SeqsUpTo(_, _)
SeqsUpTo(S, n) ==
  IF n = 0 THEN { << >> }
  ELSE LET shorter == SeqsUpTo(S, n - 1)
       IN  shorter \cup { Append(s, x) : s \in shorter, x \in S }

Files == SeqsUpTo(FileRecs, MaxBatch)

RemoteDocs == SeqsUpTo(RemoteRecs, MaxBatch)

\* ------------------------------------------------------------------- state
VARIABLES
  db,            \* the committed content of the object store
  sets,          \* useState<StickerSet[]>
  swapSourceId,  \* useState<string | null>, NoId for null
  view,          \* useState<ViewState>
  activeSetId,   \* useState<string | null>, NoId for null
  editedSet,     \* StickerEditor's useState copy, NoRec while unmounted
  isLoggedIn,
  isSyncing,
  isSaving,     \* StickerEditor's useState flag
  now,           \* the latest value Date.now() returned
  tasks,         \* the suspended handler of each slot
  txq,           \* the transactions waiting on the object store, oldest first
  lastTx,        \* the transaction that ran last and how its promise settled
  last,          \* the handler that ended last
  ops,           \* the user operations of the session so far
  overlap,       \* whether the user acts while a handler is suspended
  exportFile,    \* the backup file handleExport offered last, NoFile if none
  token,         \* GitHubSyncService.token, NoToken for null
  gistId,        \* GitHubSyncService.gistId, NoGist for null
  localStorage,  \* the two keys the service persists
  gists,         \* the gists of the account on the server
  call,          \* the suspended method of the service
  result,        \* how the last method of the service ended
  selectedItemId,\* StickerEditor's useState<string | null>, NoItem for null
  isCompressing, \* useState flag of the compress-all pass
  codec,         \* the last call of the image codec and what it returned
  other          \* the two keys as a second device of the user persists them

\* the state of GitHubSyncService and of the server it talks to
service == <<token, gistId, localStorage, gists, call, result, other>>

\* the state of the page, the session counter left out
app == <<db, sets, swapSourceId, view, activeSetId, editedSet, isLoggedIn,
         isSyncing, isSaving, now, tasks, txq, lastTx, last, overlap,
         exportFile, selectedItemId, isCompressing, codec>>

vars == <<db, sets, swapSourceId, view, activeSetId, editedSet, isLoggedIn,
          isSyncing, isSaving, now, tasks, txq, lastTx, last, ops,
          overlap, exportFile, service, selectedItemId, isCompressing, codec>>

Slots == 1..MaxTasks

Idle == [kind |-> "none", pc |-> "", snap |-> << >>, batch |-> << >>,
         arg |-> NoId, clear |-> FALSE, src |-> NoId, store0 |-> EmptyStore]

NoTx == [op |-> "none", owner |-> "none", clear |-> FALSE, outcome |-> "",
         promise |-> ""]

NoLast == [kind |-> "none", status |-> "", clear |-> FALSE]

Quiet == \A s \in Slots : tasks[s] = Idle

HasFree == \E s \in Slots : tasks[s] = Idle

\* a user operation of the session
UserOp ==
  /\ overlap \/ Quiet
  /\ ops < MaxOps
  /\ ops' = ops + 1

FreeSlot == CHOOSE s \in Slots : tasks[s] = Idle /\ \A r \in Slots : tasks[r] = Idle => s <= r

Tx(slot, op, batch, key) == [owner |-> slot, op |-> op, batch |-> batch, key |-> key]

\* the StickerEditor is rendered while view is EDITOR and the active set exists
EditorShown(v, active, list) == v = "EDITOR" /\ active # NoId /\ active \in IdsOf(list)

\* the editor copies its set when it mounts and keeps its copy while mounted
EditorAfter(v, active, list) ==
  IF ~EditorShown(v, active, list) THEN NoRec
  ELSE IF EditorShown(view, activeSetId, sets) THEN editedSet
  ELSE list[FindIndex(list, active)]

\* the editor's isSaving flag lives as long as the mounted editor
SavingAfter(v, active, list, flag) ==
  flag /\ EditorShown(v, active, list) /\ EditorShown(view, activeSetId, sets)

\* the editor's item selection lives as long as the mounted editor
SelectedAfter(v, active, list) ==
  IF EditorShown(v, active, list) /\ EditorShown(view, activeSetId, sets)
  THEN selectedItemId ELSE NoItem

Render(v, active, list, flag) ==
  /\ editedSet' = EditorAfter(v, active, list)
  /\ isSaving' = SavingAfter(v, active, list, flag)
  /\ selectedItemId' = SelectedAfter(v, active, list)

ListShown == ~EditorShown(view, activeSetId, sets)

\* no backup file has been offered
NoFile == [kind |-> "none"]

\* null for the token and for the cached gist id
NoToken == 0

NoGist == 0

GistIds == 1..MaxGists

\* an id the server has not handed out yet
Unused == [state |-> "unused"]

\* a method of the service suspended at a fetch:
\*   pc      the request it waits for
\*   arg     the token of login, the gist id the request names
\*   content the text upload sends, the file whose raw_url download fetches
\*   warned  whether upload wrote the size warning
\*   sent    the requests made so far
NoText == [kind |-> "none"]

NoCall == [op |-> "none", pc |-> "", arg |-> 0, content |-> NoText,
           warned |-> FALSE, sent |-> 0]

\* what happened last to the service or to the account. For a method: whether
\* it resolved with a value or rejected with an error, the text it sent, and
\* whether it repeats, with the same text, the method that had just resolved
NoResult == [op |-> "none", status |-> "", value |-> << >>, error |-> "",
             warned |-> FALSE, sent |-> 0, content |-> NoText, again |-> FALSE,
             message |-> ""]

\* the codec has not been called
NoCodec == [op |-> "none"]

\* the cached gist id survives
LoggedOutKeepsGist == [token |-> NoToken, gistId |-> localStorage.gistId]

\* a device on which the user has never logged in
NoDevice == [token |-> NoToken, gistId |-> NoGist]

\* what logout leaves in the service and in localStorage: both keys removed
LoggedOut == [token |-> NoToken, gistId |-> NoGist]

Init ==
  /\ db \in InitialStores
  /\ sets = << >>
  /\ swapSourceId = NoId
  /\ view = "LIST"
  /\ activeSetId = NoId
  /\ editedSet = NoRec
  /\ isLoggedIn \in BOOLEAN
  /\ isSyncing = FALSE
  /\ isSaving = FALSE
  /\ now = Clock0
  /\ tasks = [s \in Slots |->
                IF s = 1 THEN [Idle EXCEPT !.kind = "mount", !.pc = "load", !.store0 = db]
                ELSE Idle]
  /\ txq = <<Tx(1, "getAll", << >>, NoId)>>
  /\ lastTx = NoTx
  /\ last = NoLast
  /\ ops = 0
  /\ overlap \in BOOLEAN
  /\ exportFile = NoFile
  /\ token = (IF isLoggedIn THEN 1 ELSE NoToken)
  /\ gistId = NoGist
  /\ localStorage = [token |-> token, gistId |-> gistId]
  /\ other = NoDevice
  /\ gists = [g \in GistIds |-> Unused]
  /\ call = NoCall
  /\ result = NoResult
  /\ selectedItemId = NoItem
  /\ isCompressing = FALSE
  /\ codec = NoCodec


\* ----------------------------------------------------------- bookkeeping
StatusOf(promise) ==
  CASE promise = "resolved" -> "ok"
    [] promise = "rejected" -> "failed"
    [] OTHER                -> "hung"

TxLog(h, t, outcome, promise) ==
  [op |-> h.op, owner |-> t.kind, clear |-> t.clear, outcome |-> outcome,
   promise |-> promise]

Ended(t, status) == [kind |-> t.kind, status |-> status, clear |-> t.clear]

\* a handler suspends with what its closure captured; store0 remembers the
\* content of the store when the handler was started
Begin(kind, pc, batch, arg, clear, src) ==
  [kind |-> kind, pc |-> pc, snap |-> sets, batch |-> batch, arg |-> arg,
   clear |-> clear, src |-> src, store0 |-> db]

HeadIs(kind, pc) ==
  /\ txq # << >>
  /\ tasks[txq[1].owner].kind = kind
  /\ tasks[txq[1].owner].pc = pc

\* ---------------------------------------------------------------- useEffect
\* orders missing in the loaded listing are replaced by the position
MountNormalize(loaded) ==
  [i \in 1..Len(loaded) |->
     IF HasOrder(loaded[i]) THEN loaded[i] ELSE WithOrder(loaded[i], i - 1)]

MountSettle ==
  /\ HeadIs("mount", "load")
  /\ \E outcome \in {"complete", "reqerror"} :
       LET h == txq[1]
           t == tasks[h.owner]
           promise == IF outcome = "complete" THEN "resolved" ELSE "rejected"
           list == IF outcome = "complete"
                   THEN MountNormalize(GetAllStickerSets(db)) ELSE sets
       IN  /\ sets' = list
           /\ Render(view, activeSetId, list, isSaving)
           /\ lastTx' = TxLog(h, t, outcome, promise)
           /\ last' = Ended(t, StatusOf(promise))
           /\ tasks' = [tasks EXCEPT ![h.owner] = Idle]
           /\ txq' = Tail(txq)
  /\ UNCHANGED <<ops, overlap, exportFile, service, db, swapSourceId, view,
                 activeSetId, isLoggedIn, isSyncing, now, isCompressing,
                 codec>>

\* ---------------------------------------------------------- handleCreateNew
\* the items of a new collection: `item-${id}-${i}` with originalOrder i + 1
NewItems(i) == [k \in 1..MaxCount |-> Item(<<"item", i, k - 1>>, k)]

NewSet(i) == WithItems(Rec(i, <<-1>>, i, 0), MaxCount, NewItems(i))

ShiftDown(list) == [i \in 1..Len(list) |-> WithOrder(list[i], OrZero(list[i]) + 1)]

FinalSets(list, i) == <<WithOrder(NewSet(i), 0)>> \o ShiftDown(list)

HandleCreateNew ==
  /\ UserOp
  /\ ListShown
  /\ HasFree
  /\ \A i \in 1..Len(sets) : OrZero(sets[i]) < MaxOrder
  /\ \E t \in now..MaxClock :
       LET finalSets == FinalSets(sets, t)
       IN  /\ now' = t
           /\ tasks' = [tasks EXCEPT ![FreeSlot] =
                          Begin("create", "save", finalSets, t, FALSE, NoId)]
           /\ txq' = Append(txq, Tx(FreeSlot, "putMany", finalSets, NoId))
  /\ UNCHANGED <<overlap, exportFile, service, db, sets, swapSourceId, view,
                 activeSetId, editedSet, isLoggedIn, isSyncing, isSaving,
                 lastTx, last, selectedItemId, isCompressing, codec>>

CreateSettle ==
  /\ HeadIs("create", "save")
  /\ \E outcome \in Outcomes :
       LET h == txq[1]
           t == tasks[h.owner]
           r == saveStickerSets(db, h.batch, outcome)
           ok == r.promise = "resolved"
           list == IF ok THEN t.batch ELSE sets
           v == IF ok THEN "EDITOR" ELSE view
           active == IF ok THEN t.arg ELSE activeSetId
       IN  /\ db' = r.store
           /\ sets' = list
           /\ view' = v
           /\ activeSetId' = active
           /\ Render(v, active, list, isSaving)
           /\ lastTx' = TxLog(h, t, outcome, r.promise)
           /\ last' = Ended(t, StatusOf(r.promise))
           /\ tasks' = [tasks EXCEPT ![h.owner] = Idle]
           /\ txq' = Tail(txq)
  /\ UNCHANGED <<ops, overlap, exportFile, service, swapSourceId, isLoggedIn,
                 isSyncing, now, isCompressing, codec>>


\* ------------------------------------------------------------- the editor
OpenEditor ==
  /\ UserOp
  /\ ListShown
  /\ swapSourceId = NoId
  /\ \E i \in IdsOf(sets) :
       /\ activeSetId' = i
       /\ view' = "EDITOR"
       /\ Render("EDITOR", i, sets, FALSE)
  /\ UNCHANGED <<overlap, exportFile, service, db, sets, swapSourceId,
                 isLoggedIn, isSyncing, now, tasks, txq, lastTx, last,
                 isCompressing, codec>>

\* any edit of a non-order field of the editor's copy
EditorEdit ==
  /\ UserOp
  /\ ~ListShown
  /\ editedSet.title # 1
  /\ editedSet' = [editedSet EXCEPT !.title = 1]
  /\ UNCHANGED <<overlap, exportFile, service, db, sets, swapSourceId, view,
                 activeSetId, isLoggedIn, isSyncing, isSaving, now, tasks,
                 txq, lastTx, last, selectedItemId, isCompressing, codec>>

EditorBack ==
  /\ UserOp
  /\ ~ListShown
  /\ view' = "LIST"
  /\ Render("LIST", activeSetId, sets, FALSE)
  /\ UNCHANGED <<overlap, exportFile, service, db, sets, swapSourceId,
                 activeSetId, isLoggedIn, isSyncing, now, tasks, txq, lastTx,
                 last, isCompressing, codec>>

HandleSaveClick ==
  /\ UserOp
  /\ ~ListShown
  /\ ~isSaving
  /\ HasFree
  /\ isSaving' = TRUE
  /\ tasks' = [tasks EXCEPT ![FreeSlot] =
                 Begin("save", "save", <<editedSet>>, editedSet.id, FALSE, NoId)]
  /\ txq' = Append(txq, Tx(FreeSlot, "put", <<editedSet>>, editedSet.id))
  /\ UNCHANGED <<overlap, exportFile, service, db, sets, swapSourceId, view,
                 activeSetId, editedSet, isLoggedIn, isSyncing, now, lastTx,
                 last, selectedItemId, isCompressing, codec>>

\* prev.map(s => s.id === updatedSet.id ? updatedSet : s)
ReplaceById(list, u) == [i \in 1..Len(list) |-> IF list[i].id = u.id THEN u ELSE list[i]]

\* handleSaveSet after its await, and the finally of handleSaveClick
SaveSettle ==
  /\ HeadIs("save", "save")
  /\ \E outcome \in Outcomes :
       LET h == txq[1]
           t == tasks[h.owner]
           r == saveStickerSet(db, h.batch[1], outcome)
           ok == r.promise = "resolved"
           list == IF ok THEN ReplaceById(sets, h.batch[1]) ELSE sets
           v == IF ok THEN "LIST" ELSE view
       IN  /\ db' = r.store
           /\ sets' = list
           /\ view' = v
           /\ Render(v, activeSetId, list, r.promise = "pending" /\ isSaving)
           /\ lastTx' = TxLog(h, t, outcome, r.promise)
           /\ last' = Ended(t, StatusOf(r.promise))
           /\ tasks' = [tasks EXCEPT ![h.owner] = Idle]
           /\ txq' = Tail(txq)
  /\ UNCHANGED <<ops, overlap, exportFile, service, swapSourceId, activeSetId,
                 isLoggedIn, isSyncing, now, isCompressing, codec>>

\* --------------------------------------------------------- handleDeleteSet
HandleDeleteSet ==
  /\ UserOp
  /\ ListShown
  /\ HasFree
  /\ \E i \in IdsOf(sets) :
       /\ tasks' = [tasks EXCEPT ![FreeSlot] =
                      Begin("delete", "delete", << >>, i, FALSE, swapSourceId)]
       /\ txq' = Append(txq, Tx(FreeSlot, "delete", << >>, i))
  /\ UNCHANGED <<overlap, exportFile, service, db, sets, swapSourceId, view,
                 activeSetId, editedSet, isLoggedIn, isSyncing, isSaving, now,
                 lastTx, last, selectedItemId, isCompressing, codec>>

\* prev.filter(s => s.id !== id)
FilterOut(list, i) == SelectSeq(list, LAMBDA x : x.id # i)

DeleteSettle ==
  /\ HeadIs("delete", "delete")
  /\ \E outcome \in Outcomes :
       LET h == txq[1]
           t == tasks[h.owner]
           r == deleteStickerSet(db, h.key, outcome)
           ok == r.promise = "resolved"
           list == IF ok THEN FilterOut(sets, t.arg) ELSE sets
           sel == IF ok /\ t.src = t.arg THEN NoId ELSE swapSourceId
       IN  /\ db' = r.store
           /\ sets' = list
           /\ swapSourceId' = sel
           /\ Render(view, activeSetId, list, isSaving)
           /\ lastTx' = TxLog(h, t, outcome, r.promise)
           /\ last' = Ended(t, StatusOf(r.promise))
           /\ tasks' = [tasks EXCEPT ![h.owner] = Idle]
           /\ txq' = Tail(txq)
  /\ UNCHANGED <<ops, overlap, exportFile, service, view, activeSetId,
                 isLoggedIn, isSyncing, now, isCompressing, codec>>

\* --------------------------------------------------------- handleSwapClick
SwapSelect ==
  /\ UserOp
  /\ ListShown
  /\ swapSourceId = NoId
  /\ \E i \in IdsOf(sets) : swapSourceId' = i
  /\ UNCHANGED <<overlap, exportFile, service, db, sets, view, activeSetId,
                 editedSet, isLoggedIn, isSyncing, isSaving, now, tasks, txq,
                 lastTx, last, selectedItemId, isCompressing, codec>>

SwapDeselect ==
  /\ UserOp
  /\ ListShown
  /\ swapSourceId # NoId
  /\ swapSourceId \in IdsOf(sets)
  /\ swapSourceId' = NoId
  /\ UNCHANGED <<overlap, exportFile, service, db, sets, view, activeSetId,
                 editedSet, isLoggedIn, isSyncing, isSaving, now, tasks, txq,
                 lastTx, last, selectedItemId, isCompressing, codec>>

\* the order of the first record is overwritten before it is read
SwappedSetsOverwrites(list, indexA, indexB) ==
  LET orderB == OrZero(list[indexB])
      newSets == [i \in 1..Len(list) |->
                    IF i = indexA \/ i = indexB THEN WithOrder(list[i], orderB)
                    ELSE list[i]]
  IN  ArraySort("swap", newSets)

\* the orders of the two records exchanged, then the copy re-sorted
SwappedSets(list, indexA, indexB) ==
  LET orderA == OrZero(list[indexA])
      orderB == OrZero(list[indexB])
      newSets == [i \in 1..Len(list) |->
                    IF i = indexA THEN WithOrder(list[i], orderB)
                    ELSE IF i = indexB THEN WithOrder(list[i], orderA)
                    ELSE list[i]]
  IN  ArraySort("swap", newSets)

\* a click on a second card whose source is still in the listing
SwapStart ==
  /\ UserOp
  /\ ListShown
  /\ HasFree
  /\ swapSourceId # NoId
  /\ FindIndex(sets, swapSourceId) # 0
  /\ \E i \in IdsOf(sets) \ {swapSourceId} :
       LET sortedSets == SwappedSets(sets, FindIndex(sets, swapSourceId), FindIndex(sets, i))
       IN  /\ tasks' = [tasks EXCEPT ![FreeSlot] =
                          Begin("swap", "save", sortedSets, i, FALSE, swapSourceId)]
           /\ txq' = Append(txq, Tx(FreeSlot, "putMany", sortedSets, NoId))
  /\ UNCHANGED <<overlap, exportFile, service, db, sets, swapSourceId, view,
                 activeSetId, editedSet, isLoggedIn, isSyncing, isSaving, now,
                 lastTx, last, selectedItemId, isCompressing, codec>>

\* a click on a second card when the source is no longer in the listing
SwapMissing ==
  /\ UserOp
  /\ ListShown
  /\ swapSourceId # NoId
  /\ FindIndex(sets, swapSourceId) = 0
  /\ sets # << >>
  /\ swapSourceId' = NoId
  /\ UNCHANGED <<overlap, exportFile, service, db, sets, view, activeSetId,
                 editedSet, isLoggedIn, isSyncing, isSaving, now, tasks, txq,
                 lastTx, last, selectedItemId, isCompressing, codec>>

SwapSettle ==
  /\ HeadIs("swap", "save")
  /\ \E outcome \in Outcomes :
       LET h == txq[1]
           t == tasks[h.owner]
           r == saveStickerSets(db, h.batch, outcome)
           ok == r.promise = "resolved"
           list == IF ok THEN t.batch ELSE sets
           sel == IF r.promise = "pending" THEN swapSourceId ELSE NoId
       IN  /\ db' = r.store
           /\ sets' = list
           /\ swapSourceId' = sel
           /\ Render(view, activeSetId, list, isSaving)
           /\ lastTx' = TxLog(h, t, outcome, r.promise)
           /\ last' = Ended(t, StatusOf(r.promise))
           /\ tasks' = [tasks EXCEPT ![h.owner] = Idle]
           /\ txq' = Tail(txq)
  /\ UNCHANGED <<ops, overlap, exportFile, service, view, activeSetId,
                 isLoggedIn, isSyncing, now, isCompressing, codec>>


\* ------------------------------------------------------------ GitHub login
HandleGitHubLogin ==
  /\ UserOp
  /\ ListShown
  /\ ~isLoggedIn
  /\ ~isSyncing
  /\ isLoggedIn' = TRUE
  /\ token' = 1
  /\ localStorage' = [localStorage EXCEPT !.token = 1]
  /\ UNCHANGED <<overlap, exportFile, other, gistId, gists, call, result, db, sets,
                 swapSourceId, view, activeSetId, editedSet, isSyncing,
                 isSaving, now, tasks, txq, lastTx, last, selectedItemId,
                 isCompressing, codec>>

\* githubSync.logout() and setIsLoggedIn(false)
HandleGitHubLogout ==
  /\ UserOp
  /\ ListShown
  /\ isLoggedIn
  /\ isLoggedIn' = FALSE
  /\ token' = LoggedOut.token
  /\ gistId' = LoggedOut.gistId
  /\ localStorage' = LoggedOut
  /\ result' = [NoResult EXCEPT !.op = "logout", !.status = "ok"]
  /\ UNCHANGED <<overlap, exportFile, other, gists, call, db, sets, swapSourceId,
                 view, activeSetId, editedSet, isSyncing, isSaving, now,
                 tasks, txq, lastTx, last, selectedItemId, isCompressing,
                 codec>>

\* -------------------------------------------------- handleDownloadFromGist
HandleDownloadFromGist ==
  /\ UserOp
  /\ ListShown
  /\ isLoggedIn
  /\ ~isSyncing
  /\ HasFree
  /\ isSyncing' = TRUE
  /\ tasks' = [tasks EXCEPT ![FreeSlot] =
                 Begin("download", "net", << >>, NoId, FALSE, NoId)]
  /\ UNCHANGED <<overlap, exportFile, service, db, sets, swapSourceId, view,
                 activeSetId, editedSet, isLoggedIn, isSaving, now, txq,
                 lastTx, last, selectedItemId, isCompressing, codec>>

\* the handler without the test of remoteSets.length: the empty array is
\* saved and shown like any other
DownloadResolvesSavesEmpty ==
  \E s \in Slots, remoteSets \in RemoteDocs :
    /\ tasks[s].kind = "download"
    /\ tasks[s].pc = "net"
    /\ tasks' = [tasks EXCEPT ![s].pc = "save", ![s].batch = remoteSets]
    /\ txq' = Append(txq, Tx(s, "putMany", remoteSets, NoId))
    /\ UNCHANGED <<ops, overlap, exportFile, service, db, sets, swapSourceId,
                 view, activeSetId, editedSet, isLoggedIn, isSaving, now,
                 lastTx, selectedItemId, isCompressing, codec, isSyncing, last>>

\* a handler for which download and write are one step: the array is in
\* the store and in the listing the moment download() resolves
DownloadResolvesAtomic ==
  \E s \in Slots, remoteSets \in RemoteDocs :
    /\ tasks[s].kind = "download"
    /\ tasks[s].pc = "net"
    /\ tasks' = [tasks EXCEPT ![s] = Idle]
    /\ isSyncing' = FALSE
    /\ last' = Ended(tasks[s], IF Len(remoteSets) = 0 THEN "empty" ELSE "ok")
    /\ db' = StorePutAll(db, PlacedPuts(remoteSets))
    /\ sets' = IF Len(remoteSets) = 0 THEN sets ELSE remoteSets
    /\ UNCHANGED <<ops, overlap, exportFile, service, swapSourceId, txq,
                 view, activeSetId, editedSet, isLoggedIn, isSaving, now,
                 lastTx, selectedItemId, isCompressing, codec>>

\* githubSync.download() resolves with the parsed array of the backup
DownloadResolves ==
  \E s \in Slots, remoteSets \in RemoteDocs :
    /\ tasks[s].kind = "download"
    /\ tasks[s].pc = "net"
    /\ IF Len(remoteSets) = 0
       THEN /\ tasks' = [tasks EXCEPT ![s] = Idle]
            /\ isSyncing' = FALSE
            /\ last' = Ended(tasks[s], "empty")
            /\ txq' = txq
       ELSE /\ tasks' = [tasks EXCEPT ![s].pc = "save", ![s].batch = remoteSets]
            /\ txq' = Append(txq, Tx(s, "putMany", remoteSets, NoId))
            /\ UNCHANGED <<isSyncing, last>>
    /\ UNCHANGED <<ops, overlap, exportFile, service, db, sets, swapSourceId,
                 view, activeSetId, editedSet, isLoggedIn, isSaving, now,
                 lastTx, selectedItemId, isCompressing, codec>>

\* githubSync.download() rejects
DownloadRejects ==
  \E s \in Slots :
    /\ tasks[s].kind = "download"
    /\ tasks[s].pc = "net"
    /\ tasks' = [tasks EXCEPT ![s] = Idle]
    /\ isSyncing' = FALSE
    /\ last' = Ended(tasks[s], "failed")
    /\ UNCHANGED <<ops, overlap, exportFile, service, db, sets, swapSourceId,
                 view, activeSetId, editedSet, isLoggedIn, isSaving, now, txq,
                 lastTx, selectedItemId, isCompressing, codec>>

DownloadSaveSettle ==
  /\ HeadIs("download", "save")
  /\ \E outcome \in Outcomes :
       LET h == txq[1]
           t == tasks[h.owner]
           r == saveStickerSets(db, h.batch, outcome)
           ok == r.promise = "resolved"
           list == IF ok THEN t.batch ELSE sets
       IN  /\ db' = r.store
           /\ sets' = list
           /\ isSyncing' = (r.promise = "pending")
           /\ Render(view, activeSetId, list, isSaving)
           /\ lastTx' = TxLog(h, t, outcome, r.promise)
           /\ last' = Ended(t, StatusOf(r.promise))
           /\ tasks' = [tasks EXCEPT ![h.owner] = Idle]
           /\ txq' = Tail(txq)
  /\ UNCHANGED <<ops, overlap, exportFile, service, swapSourceId, view,
                 activeSetId, isLoggedIn, now, isCompressing, codec>>

\* ------------------------------------------------------------ handleExport
HandleExport ==
  /\ UserOp
  /\ ListShown
  /\ HasFree
  /\ tasks' = [tasks EXCEPT ![FreeSlot] =
                 Begin("export", "load", << >>, NoId, FALSE, NoId)]
  /\ txq' = Append(txq, Tx(FreeSlot, "getAll", << >>, NoId))
  /\ UNCHANGED <<overlap, exportFile, service, db, sets, swapSourceId, view,
                 activeSetId, editedSet, isLoggedIn, isSyncing, isSaving, now,
                 lastTx, last, selectedItemId, isCompressing, codec>>

\* the file offered for download holds the text of what getAllStickerSets
\* returned; store remembers the content of the store it was read from
ExportSettle ==
  /\ HeadIs("export", "load")
  /\ \E outcome \in {"complete", "reqerror"} :
       LET h == txq[1]
           t == tasks[h.owner]
           promise == IF outcome = "complete" THEN "resolved" ELSE "rejected"
       IN  /\ exportFile' = IF outcome = "complete"
                            THEN [kind |-> "file",
                                  text |-> JsonStringify(GetAllStickerSets(db)),
                                  store |-> db]
                            ELSE exportFile
           /\ lastTx' = TxLog(h, t, outcome, promise)
           /\ last' = Ended(t, StatusOf(promise))
           /\ tasks' = [tasks EXCEPT ![h.owner] = Idle]
           /\ txq' = Tail(txq)
  /\ UNCHANGED <<ops, overlap, service, db, sets, swapSourceId, view,
                 activeSetId, editedSet, isLoggedIn, isSyncing, isSaving, now,
                 selectedItemId, isCompressing, codec>>

\* -------------------------------------------------------- handleFileImport
\* every record gets its position in the array, whatever order it carried
CleanDataReindexes(data) ==
  [i \in 1..Len(data) |-> WithOrder(data[i], i - 1)]

\* the records are written as they were read
CleanDataKeepsMissing(data) == data

\* records without a numeric order get their position in the array
CleanData(data) ==
  [i \in 1..Len(data) |->
     IF HasOrder(data[i]) THEN data[i] ELSE WithOrder(data[i], i - 1)]

\* the bulk write is left out once the store has been cleared
ImportNextSkipsSave(slot, data, cleared, saved) ==
  IF ~cleared THEN [pc |-> "clear", tx |-> Tx(slot, "clear", << >>, NoId)]
  ELSE [pc |-> "refresh", tx |-> Tx(slot, "getAll", << >>, NoId)]

\* the transaction an import places next, given the steps already done
ImportNext(slot, data, cleared, saved) ==
  IF ~cleared THEN [pc |-> "clear", tx |-> Tx(slot, "clear", << >>, NoId)]
  ELSE IF ~saved /\ Len(data) > 0
  THEN [pc |-> "save", tx |-> Tx(slot, "putMany", CleanData(data), NoId)]
  ELSE [pc |-> "refresh", tx |-> Tx(slot, "getAll", << >>, NoId)]

\* the arrays the user can pick: the prepared files and the file exported last
PickedFiles ==
  Files \cup (IF exportFile = NoFile THEN {} ELSE {JsonParse(exportFile.text)})

HandleFileImport ==
  /\ UserOp
  /\ ListShown
  /\ HasFree
  /\ \E data \in PickedFiles, shouldClear \in BOOLEAN :
       LET next == ImportNext(FreeSlot, data, ~shouldClear, FALSE)
       IN  /\ tasks' = [tasks EXCEPT ![FreeSlot] =
                          Begin("import", next.pc, data, NoId, shouldClear, NoId)]
           /\ txq' = Append(txq, next.tx)
  /\ UNCHANGED <<overlap, exportFile, service, db, sets, swapSourceId, view,
                 activeSetId, editedSet, isLoggedIn, isSyncing, isSaving, now,
                 lastTx, last, selectedItemId, isCompressing, codec>>

\* what the import does once a write step has settled: the next step is
\* placed when the promise resolved, the catch block ends the import when it
\* rejected, and nothing runs while it stays pending
ImportAfterWrite(h, t, outcome, r, next) ==
  /\ db' = r.store
  /\ lastTx' = TxLog(h, t, outcome, r.promise)
  /\ IF r.promise = "resolved"
     THEN /\ tasks' = [tasks EXCEPT ![h.owner].pc = next.pc]
          /\ txq' = Append(Tail(txq), next.tx)
          /\ last' = last
     ELSE /\ tasks' = [tasks EXCEPT ![h.owner] = Idle]
          /\ txq' = Tail(txq)
          /\ last' = Ended(t, StatusOf(r.promise))

ImportClearSettle ==
  /\ HeadIs("import", "clear")
  /\ \E outcome \in Outcomes :
       LET h == txq[1]
           t == tasks[h.owner]
       IN  ImportAfterWrite(h, t, outcome, clearAllStickerSets(db, outcome),
                            ImportNext(h.owner, t.batch, TRUE, FALSE))
  /\ UNCHANGED <<ops, overlap, exportFile, service, sets, swapSourceId, view,
                 activeSetId, editedSet, isLoggedIn, isSyncing, isSaving, now,
                 selectedItemId, isCompressing, codec>>

ImportSaveSettle ==
  /\ HeadIs("import", "save")
  /\ \E outcome \in Outcomes :
       LET h == txq[1]
           t == tasks[h.owner]
       IN  ImportAfterWrite(h, t, outcome, saveStickerSets(db, h.batch, outcome),
                            ImportNext(h.owner, t.batch, TRUE, TRUE))
  /\ UNCHANGED <<ops, overlap, exportFile, service, sets, swapSourceId, view,
                 activeSetId, editedSet, isLoggedIn, isSyncing, isSaving, now,
                 selectedItemId, isCompressing, codec>>

ImportRefreshSettle ==
  /\ HeadIs("import", "refresh")
  /\ \E outcome \in {"complete", "reqerror"} :
       LET h == txq[1]
           t == tasks[h.owner]
           promise == IF outcome = "complete" THEN "resolved" ELSE "rejected"
           list == IF outcome = "complete" THEN GetAllStickerSets(db) ELSE sets
       IN  /\ sets' = list
           /\ Render(view, activeSetId, list, isSaving)
           /\ lastTx' = TxLog(h, t, outcome, promise)
           /\ last' = Ended(t, StatusOf(promise))
           /\ tasks' = [tasks EXCEPT ![h.owner] = Idle]
           /\ txq' = Tail(txq)
  /\ UNCHANGED <<ops, overlap, exportFile, service, db, swapSourceId, view,
                 activeSetId, isLoggedIn, isSyncing, now, isCompressing,
                 codec>>

\* --------------------------------------------------------- the image codec
\* an image, as a file or as a data URL: its type, its natural size and the
\* alpha of its pixels, row after row
Image(format, w, h, raster) ==
  [format |-> format, width |-> w, height |-> h, raster |-> raster]

\* a file or a data URL that does not decode
Broken == Image("broken", 0, 0, << >>)

\* "data:,", which toDataURL returns for a canvas without pixels
EmptyUrl == Image("empty", 0, 0, << >>)

\* img.onload fires, not img.onerror
Decodes(img) == img.format \notin {"none", "broken", "empty"}

\* full opacity
Opaque == 255

\* the quality the callers pass, in hundredths
Quality == 85

OpaqueRaster(n) == [i \in 1..n |-> Opaque]

IsOpaque(raster) == \A i \in 1..Len(raster) : raster[i] = Opaque

\* the rasters of n pixels: opaque, or one pixel that is not
Rasters(n) ==
  {OpaqueRaster(n)} \cup
  {[i \in 1..n |-> IF i = p THEN a ELSE Opaque] : p \in 1..n, a \in {0, 254}}

\* the images of a type that come in the sizes of the model
ImagesOf(format) ==
  UNION {{Image(format, w, h, r) : r \in Rasters(w * h)} :
           w \in 1..MaxSide, h \in 1..MaxSide}

\* what can be handed to the codec; a JPEG has no alpha
SourceImages ==
  {Broken, EmptyUrl}
    \cup ImagesOf("png") \cup ImagesOf("webp")
    \cup {i \in ImagesOf("jpeg") : IsOpaque(i.raster)}

\* the width and the height after `if (width > maxWidth)`: height is the
\* number (height * maxWidth) / width, kept as a fraction
TargetSize(w, h, maxWidth) ==
  IF w > maxWidth
  THEN [width |-> [num |-> maxWidth, den |-> 1],
        height |-> [num |-> h * maxWidth, den |-> w]]
  ELSE [width |-> [num |-> w, den |-> 1], height |-> [num |-> h, den |-> 1]]

\* the conversion of a number to the integer canvas.width, canvas.height and
\* the arguments of getImageData take: the fraction is dropped
IntegerPart(q) == q.num \div q.den

\* what drawImage leaves on a canvas of cw by ch pixels: the raster of the
\* image when the size is the natural size, a resampled raster otherwise
Drawn(img, cw, ch) ==
  IF cw = img.width /\ ch = img.height THEN {img.raster}
  ELSE IF IsOpaque(img.raster) THEN {OpaqueRaster(cw * ch)}
  ELSE Rasters(cw * ch)

\* hasTransparency: getImageData throws for an empty rectangle, and the
\* catch block answers true; otherwise every pixel is looked at
HasTransparency(raster, sw, sh) ==
  IF sw = 0 \/ sh = 0 THEN TRUE
  ELSE \E i \in 1..Len(raster) : raster[i] < Opaque

\* canvas.toDataURL(type, quality): PNG keeps the raster, JPEG has no alpha
ToDataURL(type, cw, ch, raster) ==
  IF cw = 0 \/ ch = 0 THEN EmptyUrl
  ELSE IF type = "png" THEN Image("png", cw, ch, raster)
  ELSE Image("jpeg", cw, ch, OpaqueRaster(cw * ch))

Rejected(error) ==
  [status |-> "rejected", error |-> error, url |-> NoImage, type |-> "",
   quality |-> 0, background |-> ""]

\* the promise resolves with the data URL; type, quality and background are
\* what the encoding was asked for
Resolved(url, type, quality, background) ==
  [status |-> "resolved", error |-> "", url |-> url, type |-> type,
   quality |-> quality, background |-> background]

\* the type the codec encodes to
MimeType(isPNG, raster, sw, sh) ==
  IF isPNG /\ HasTransparency(raster, sw, sh) THEN "png" ELSE "jpeg"

\* compressExistingImage(dataUrl, maxWidth, quality), given whether a 2d
\* context is obtained and what drawImage has drawn
compressExistingImage(dataUrl, maxWidth, quality, ctx, drawn) ==
  IF ~Decodes(dataUrl) THEN Rejected("Failed to load image")
  ELSE IF ~ctx THEN Rejected("Failed to get canvas context")
  ELSE LET size == TargetSize(dataUrl.width, dataUrl.height, maxWidth)
           cw == IntegerPart(size.width)
           ch == IntegerPart(size.height)
           type == MimeType(dataUrl.format = "png", drawn, cw, ch)
       IN  IF type = "png"
           THEN Resolved(ToDataURL("png", cw, ch, drawn), "png", 0, "none")
           ELSE Resolved(ToDataURL("jpeg", cw, ch, drawn), "jpeg", quality, "white")

\* compressImage(file, maxWidth, quality): nothing is filled before the
\* image is drawn, the JPEG encoder composites onto black
compressImage(file, maxWidth, quality, ctx, drawn) ==
  IF ~Decodes(file) THEN Rejected("Failed to load image")
  ELSE IF ~ctx THEN Rejected("Failed to get canvas context")
  ELSE LET size == TargetSize(file.width, file.height, maxWidth)
           cw == IntegerPart(size.width)
           ch == IntegerPart(size.height)
           type == MimeType(file.format = "png", drawn, cw, ch)
       IN  IF type = "png"
           THEN Resolved(ToDataURL("png", cw, ch, drawn), "png", 0, "none")
           ELSE Resolved(ToDataURL("jpeg", cw, ch, drawn), "jpeg", quality, "black")

\* the rasters drawImage can leave for a call
DrawnFor(img, maxWidth) ==
  IF ~Decodes(img) THEN {<< >>}
  ELSE LET size == TargetSize(img.width, img.height, maxWidth)
       IN  Drawn(img, IntegerPart(size.width), IntegerPart(size.height))

CodecCall(op, img, maxWidth, drawn, r) ==
  [op |-> op, source |-> img, maxWidth |-> maxWidth, drawn |-> drawn,
   result |-> r]

\* an image and a limit the codec is about to be called with
Picked(img, maxWidth) ==
  [op |-> "picked", source |-> img, maxWidth |-> maxWidth]

\* compressImage is called on the file
CompressImage ==
  /\ codec.op = "picked"
  /\ codec.source # EmptyUrl
  /\ \E ctx \in BOOLEAN, drawn \in DrawnFor(codec.source, codec.maxWidth) :
       codec' = CodecCall("compressImage", codec.source, codec.maxWidth, drawn,
                          compressImage(codec.source, codec.maxWidth, Quality,
                                        ctx, drawn))
  /\ UNCHANGED <<db, sets, swapSourceId, view, activeSetId, editedSet,
                 isLoggedIn, isSyncing, isSaving, now, tasks, txq, lastTx,
                 last, ops, overlap, exportFile, service, selectedItemId,
                 isCompressing>>

\* compressExistingImage is called on the data URL
CompressExistingImage ==
  /\ codec.op = "picked"
  /\ \E ctx \in BOOLEAN, drawn \in DrawnFor(codec.source, codec.maxWidth) :
       codec' = CodecCall("compressExistingImage", codec.source, codec.maxWidth,
                          drawn,
                          compressExistingImage(codec.source, codec.maxWidth,
                                                Quality, ctx, drawn))
  /\ UNCHANGED <<db, sets, swapSourceId, view, activeSetId, editedSet,
                 isLoggedIn, isSyncing, isSaving, now, tasks, txq, lastTx,
                 last, ops, overlap, exportFile, service, selectedItemId,
                 isCompressing>>

\* ------------------------------------------------- the editor's item grid
\* a user operation on the grid of the editor: it touches the editor's copy
\* only, and a session has room for MaxEdits operations when it makes these
EditorOp ==
  /\ overlap \/ Quiet
  /\ ~ListShown
  /\ ops < MaxEdits
  /\ ops' = ops + 1

\* COUNT_OPTIONS, scaled down to 1..MaxCount
COUNT_OPTIONS == 1..MaxCount

\* the values Date.now() returns to the calls of one handler, one after the
\* other: none before the latest value returned
RECURSIVE ClockReadings(_, _)
ClockReadings(from, n) ==
  IF n = 0 THEN { << >> }
  ELSE UNION {{<<t>> \o rest : rest \in ClockReadings(t, n - 1)} : t \in from..MaxClock}

\* Array.from({ length: diff }, (_, i) => ...): the item of index i has the
\* id `new-${Date.now()}-${i}` and the position after the existing items as
\* originalOrder and name
Additional(length, ts) ==
  [k \in 1..Len(ts) |-> Item(<<"new", ts[k], k - 1>>, length + k)]

\* itemCount is left as it was
CountChangedKeepsCount(prev, newCount, ts) ==
  [prev EXCEPT !.items =
     IF newCount < Len(prev.items) THEN SubSeq(prev.items, 1, newCount)
     ELSE prev.items \o Additional(Len(prev.items), ts)]

\* the updater of handleCountChange: slice(0, newCount) or the existing
\* items followed by the additional ones
CountChanged(prev, newCount, ts) ==
  [prev EXCEPT !.itemCount = newCount,
               !.items =
     IF newCount < Len(prev.items) THEN SubSeq(prev.items, 1, newCount)
     ELSE prev.items \o Additional(Len(prev.items), ts)]

\* the items a pad of prev to newCount adds
Diff(prev, newCount) ==
  IF newCount > Len(prev.items) THEN newCount - Len(prev.items) ELSE 0

HandleCountChange ==
  /\ EditorOp
  /\ \E newCount \in COUNT_OPTIONS :
       \E ts \in ClockReadings(now, Diff(editedSet, newCount)) :
         /\ editedSet' = CountChanged(editedSet, newCount, ts)
         /\ now' = IF ts = << >> THEN now ELSE ts[Len(ts)]
  /\ UNCHANGED <<overlap, exportFile, service, db, sets, swapSourceId, view,
                 activeSetId, isLoggedIn, isSyncing, isSaving, tasks, txq,
                 lastTx, last, selectedItemId, isCompressing, codec>>

\* the updater of the swap: the first items with the two ids change places
\* when both are found
SwappedItems(items, a, b) ==
  LET indexA == FindIndex(items, a)
      indexB == FindIndex(items, b)
  IN  IF indexA # 0 /\ indexB # 0
      THEN [k \in 1..Len(items) |->
              IF k = indexA THEN items[indexB]
              ELSE IF k = indexB THEN items[indexA]
              ELSE items[k]]
      ELSE items

\* handleItemClick(item.id) from the card at position p
ItemClickAt(p) ==
  /\ EditorOp
  /\ p \in 1..Len(editedSet.items)
  /\ LET id == editedSet.items[p].id
     IN  IF selectedItemId = NoItem
         THEN /\ selectedItemId' = <<id>>
              /\ editedSet' = editedSet
         ELSE IF selectedItemId = <<id>>
         THEN /\ selectedItemId' = NoItem
              /\ editedSet' = editedSet
         ELSE /\ editedSet' = [editedSet EXCEPT !.items =
                                 SwappedItems(editedSet.items, selectedItemId[1], id)]
              /\ selectedItemId' = NoItem
  /\ UNCHANGED <<overlap, exportFile, service, db, sets, swapSourceId, view,
                 activeSetId, isLoggedIn, isSyncing, isSaving, now, tasks, txq,
                 lastTx, last, isCompressing, codec>>

HandleItemClick == \E p \in 1..MaxCount : ItemClickAt(p)

\* the image a picked file is attached as
PickedImage == Image("png", 1, 1, <<0>>)

\* items.map(item => item.id === id ? { ...item, ...updates } : item)
UpdatedItems(items, id, img) ==
  [k \in 1..Len(items) |->
     IF items[k].id = id THEN [items[k] EXCEPT !.imageUrl = img] ELSE items[k]]

\* handleUpdateItem(item.id, { imageUrl }) from the card at position p
HandleUpdateItem ==
  /\ EditorOp
  /\ \E p \in 1..Len(editedSet.items) :
       /\ ~HasImage(editedSet.items[p])
       /\ editedSet' = [editedSet EXCEPT !.items =
                          UpdatedItems(editedSet.items, editedSet.items[p].id,
                                       PickedImage)]
  /\ UNCHANGED <<overlap, exportFile, service, db, sets, swapSourceId, view,
                 activeSetId, isLoggedIn, isSyncing, isSaving, now, tasks, txq,
                 lastTx, last, selectedItemId, isCompressing, codec>>

\* ------------------------------------------------------- handleCompressAll
\* the maxWidth handleCompressAll passes: 800 in the source, here a width
\* between the widths of the images of the model
CompressAllWidth == 2

\* an item with an image attached
ItemWithImage(i, n, img) == [Item(i, n) EXCEPT !.imageUrl = img]

\* `set.stickers` is an array: the record has the property
HasStickers(set) == "stickers" \in DOMAIN set

\* a record that carries a stickers property next to its other fields
WithStickers(r, stickers) ==
  [k \in DOMAIN r \cup {"stickers"} |-> IF k = "stickers" THEN stickers ELSE r[k]]

RECURSIVE CountImages(_)
CountImages(stickers) ==
  IF stickers = << >> THEN 0
  ELSE (IF HasImage(Head(stickers)) THEN 1 ELSE 0) + CountImages(Tail(stickers))

\* the counting loop over set.stickers of every set
RECURSIVE TotalImages(_)
TotalImages(list) ==
  IF list = << >> THEN 0
  ELSE CountImages(Head(list).stickers) + TotalImages(Tail(list))

\* what compressExistingImage(sticker.imageUrl, 800, 0.85) can settle with
CompressedAs(url) ==
  {compressExistingImage(url, CompressAllWidth, Quality, ctx, drawn) :
     ctx \in BOOLEAN, drawn \in DrawnFor(url, CompressAllWidth)}

\* the inner try: the compressed image, or the sticker as it was when the
\* promise rejects
UpdatedSticker(sticker, r) ==
  IF r.status = "resolved" THEN [sticker EXCEPT !.imageUrl = r.url] ELSE sticker

\* the arrays the inner Promise.all can resolve with
RECURSIVE UpdatedStickers(_)
UpdatedStickers(stickers) ==
  IF stickers = << >> THEN { << >> }
  ELSE LET sticker == Head(stickers)
           heads == IF HasImage(sticker)
                    THEN {UpdatedSticker(sticker, r) : r \in CompressedAs(sticker.imageUrl)}
                    ELSE {sticker}
       IN  {<<h>> \o t : h \in heads, t \in UpdatedStickers(Tail(stickers))}

\* the arrays the outer Promise.all can resolve with: { ...set, stickers }
RECURSIVE UpdatedSets(_)
UpdatedSets(list) ==
  IF list = << >> THEN { << >> }
  ELSE {<<[Head(list) EXCEPT !.stickers = u]>> \o t :
          u \in UpdatedStickers(Head(list).stickers), t \in UpdatedSets(Tail(list))}

\* how a pass ended without having reached the store
CompressEnded(status) == [kind |-> "compress", status |-> status, clear |-> FALSE]

\* the handler up to its first await. `set.stickers.forEach` of the counting
\* loop throws TypeError for a set without stickers: the loop stands before
\* the try, so the flag set before it is never reset
HandleCompressAll ==
  /\ UserOp
  /\ ListShown
  /\ ~isCompressing
  /\ HasFree
  /\ IF \E i \in 1..Len(sets) : ~HasStickers(sets[i])
     THEN /\ isCompressing' = TRUE
          /\ last' = CompressEnded("threw")
          /\ tasks' = tasks
     ELSE IF TotalImages(sets) = 0
     THEN /\ isCompressing' = FALSE
          /\ last' = CompressEnded("nothing")
          /\ tasks' = tasks
     ELSE /\ isCompressing' = TRUE
          /\ last' = last
          /\ tasks' = [tasks EXCEPT ![FreeSlot] =
                         Begin("compress", "codec", << >>, NoId, FALSE, NoId)]
  /\ UNCHANGED <<overlap, exportFile, service, db, sets, swapSourceId, view,
                 activeSetId, editedSet, isLoggedIn, isSyncing, isSaving, now,
                 txq, lastTx, selectedItemId, codec>>

\* every compressExistingImage of the pass has settled: saveStickerSets is
\* called with the updated sets
CompressImages ==
  \E s \in Slots :
    /\ tasks[s].kind = "compress"
    /\ tasks[s].pc = "codec"
    /\ \E updatedSets \in UpdatedSets(tasks[s].snap) :
         /\ tasks' = [tasks EXCEPT ![s].pc = "save", ![s].batch = updatedSets]
         /\ txq' = Append(txq, Tx(s, "putMany", updatedSets, NoId))
    /\ UNCHANGED <<ops, overlap, exportFile, service, db, sets, swapSourceId,
                   view, activeSetId, editedSet, isLoggedIn, isSyncing,
                   isSaving, now, lastTx, last, selectedItemId, isCompressing,
                   codec>>

\* saveStickerSets settles: setSets(updatedSets) when it resolved, the catch
\* block when it rejected, and the finally block in both cases
CompressSettle ==
  /\ HeadIs("compress", "save")
  /\ \E outcome \in Outcomes :
       LET h == txq[1]
           t == tasks[h.owner]
           r == saveStickerSets(db, h.batch, outcome)
           ok == r.promise = "resolved"
           list == IF ok THEN t.batch ELSE sets
       IN  /\ db' = r.store
           /\ sets' = list
           /\ isCompressing' = (r.promise = "pending" /\ isCompressing)
           /\ Render(view, activeSetId, list, isSaving)
           /\ lastTx' = TxLog(h, t, outcome, r.promise)
           /\ last' = Ended(t, StatusOf(r.promise))
           /\ tasks' = [tasks EXCEPT ![h.owner] = Idle]
           /\ txq' = Tail(txq)
  /\ UNCHANGED <<ops, overlap, exportFile, service, swapSourceId, view,
                 activeSetId, isLoggedIn, isSyncing, now, codec>>

\* ------------------------------------------------------- GitHubSyncService
\* the description createGist gives the backup and findGistByDescription
\* looks for
BackupDescription == "L'Atelier de Stickers - Backup"

\* the description is not set
GistWithoutDescription(description, file) ==
  [state |-> "live", description |-> "", file |-> file]

\* a gist of the account: its description and its file sticker-sets.json,
\* NoText when it has no such file
Gist(description, file) ==
  [state |-> "live", description |-> description, file |-> file]

Deleted == [state |-> "deleted"]

Live(g) == g \in GistIds /\ gists[g].state = "live"

\* the server embeds at most EmbedLimit bytes of a file in the gist document
EmbedLimit == MiB

\* the entry of the file in the gist document the server sends
GistFile(file) ==
  LET cut == SizeInBytes(file) > EmbedLimit
  IN  [content |-> IF cut THEN [kind |-> "cut"] ELSE file,
       truncated |-> cut,
       raw_url |-> file]

\* file.content is read whatever the document says
ContentFromDocument(file) == "content"

\* where download takes the content from
ContentFrom(file) == IF file.truncated THEN "raw_url" ELSE "content"

\* a call of the session on the service, which runs one method at a time
ServiceOp ==
  /\ call = NoCall
  /\ ops < MaxOps
  /\ ops' = ops + 1

\* the method ends: its promise resolves with the value or rejects; message
\* is what JSON.parse said when the method had a text to parse and it threw
DoneSaying(op, status, value, error, warned, sent, message) ==
  LET content == IF op = "upload" THEN call.content ELSE NoText
  IN  /\ call' = NoCall
      /\ result' = [op |-> op, status |-> status, value |-> value,
                    error |-> error, warned |-> warned, sent |-> sent,
                    content |-> content,
                    again |-> /\ result.op = op
                              /\ result.status = "ok"
                              /\ result.content = content,
                    message |-> message]

Done(op, status, value, error, warned, sent) ==
  DoneSaying(op, status, value, error, warned, sent, "")

\* something that is not a suspending method has happened
Event(op) == result' = [NoResult EXCEPT !.op = op, !.status = "ok"]

\* the method suspends at a fetch
Await(op, pc, arg, content, warned, sent) ==
  /\ call' = [op |-> op, pc |-> pc, arg |-> arg, content |-> content,
              warned |-> warned, sent |-> sent]
  /\ result' = result

Waiting(op, pc) == call.op = op /\ call.pc = pc

\* the constructor, run when the page is loaded
Construct ==
  /\ ServiceOp
  /\ token' = localStorage.token
  /\ gistId' = localStorage.gistId
  /\ Event("constructor")
  /\ UNCHANGED <<app, other, localStorage, gists, call>>

\* ------------------------------------------------------------------- login
Tokens == {1, 2}

Login ==
  /\ ServiceOp
  /\ \E t \in Tokens : Await("login", "user", t, NoText, FALSE, 1)
  /\ UNCHANGED <<app, other, token, gistId, localStorage, gists>>

\* the token is stored before the answer is looked at
CredentialUnchecked(response, old, new) == new

\* the token login leaves stored: the new one only when the answer is ok
Credential(response, old, new) == IF response = "ok" THEN new ELSE old

\* the answer of the identity check: ok, a non-success status, or no answer
LoginResponse ==
  /\ Waiting("login", "user")
  /\ \E response \in {"ok", "denied", "failed"} :
       /\ token' = Credential(response, token, call.arg)
       /\ localStorage' =
            [localStorage EXCEPT
               !.token = Credential(response, localStorage.token, call.arg)]
       /\ IF response = "ok"
          THEN Done("login", "ok", << >>, "", FALSE, call.sent)
          ELSE Done("login", "error", << >>, "login", FALSE, call.sent)
  /\ UNCHANGED <<app, other, ops, gistId, gists>>

\* ------------------------------------------------------------------ logout
Logout ==
  /\ ServiceOp
  /\ token' = LoggedOut.token
  /\ gistId' = LoggedOut.gistId
  /\ localStorage' = LoggedOut
  /\ Event("logout")
  /\ UNCHANGED <<app, other, gists, call>>

\* ------------------------------------------------------------------ upload
\* no ceiling to speak of
HardLimitAbsent == 1000 * MiB

HardLimit == 10 * MiB

SoftLimit == 5 * MiB

\* the listings upload is called with
UploadCatalogs ==
  {<< >>,
   <<Rec(1, <<0>>, 1, 0)>>,
   <<Rec(1, <<0>>, 1, 0), Rec(2, <<1>>, 2, 3)>>,
   <<Rec(1, <<0>>, 1, 5)>>,
   <<Rec(1, <<0>>, 1, 6)>>,
   <<Rec(1, <<0>>, 1, 10)>>,
   <<Rec(1, <<0>>, 1, 11)>>}

\* a gist is created whatever id is cached
RequestAlwaysPost(id) == "post"

\* the request upload makes: an update of the cached gist, else a creation
Request(id) == IF id # NoGist THEN "patch" ELSE "post"

\* upload up to its first fetch
UploadStep(stickerSets) ==
  LET content == JsonStringify(stickerSets)
      size == SizeInBytes(content)
  IN  IF token = NoToken
      THEN Done("upload", "error", << >>, "notLoggedIn", FALSE, 0)
      ELSE IF size > HardLimit
      THEN Done("upload", "error", << >>, "tooLarge", FALSE, 0)
      ELSE Await("upload", Request(gistId), gistId, content, size > SoftLimit, 1)

Upload ==
  /\ ServiceOp
  /\ \E stickerSets \in UploadCatalogs : UploadStep(stickerSets)
  /\ UNCHANGED <<app, other, token, gistId, localStorage, gists>>

\* the ids the server has not handed out
UnusedIds == {g \in GistIds : gists[g].state = "unused"}

NewId == CHOOSE g \in UnusedIds : \A h \in UnusedIds : g <= h

\* the answer to the POST of createGist:
\*   created  the gist exists and its id is returned
\*   refused  a non-success status, nothing is created
\*   lost     the gist exists, the answer does not arrive
CreateGist ==
  /\ Waiting("upload", "post")
  /\ \E response \in {"created", "refused", "lost"} :
       /\ response \in {"created", "lost"} => UnusedIds # {}
       /\ gists' = IF response = "refused" THEN gists
                   ELSE [gists EXCEPT ![NewId] = Gist(BackupDescription, call.content)]
       /\ IF response = "created"
          THEN /\ gistId' = NewId
               /\ localStorage' = [localStorage EXCEPT !.gistId = NewId]
               /\ Done("upload", "ok", << >>, "", call.warned, call.sent)
          ELSE /\ UNCHANGED <<gistId, localStorage>>
               /\ Done("upload", "error", << >>, "upload", call.warned, call.sent)
  /\ UNCHANGED <<app, other, ops, token>>

\* the answer to the PATCH of updateGist: the file of the gist is replaced,
\* or a non-success status (always so when the gist does not exist)
UpdateGist ==
  /\ Waiting("upload", "patch")
  /\ \E response \in {"ok", "refused"} :
       IF response = "ok" /\ Live(call.arg)
       THEN /\ gists' = [gists EXCEPT ![call.arg].file = call.content]
            /\ Done("upload", "ok", << >>, "", call.warned, call.sent)
       ELSE /\ gists' = gists
            /\ Done("upload", "error", << >>, "upload", call.warned, call.sent)
  /\ UNCHANGED <<app, other, ops, token, gistId, localStorage>>

\* ---------------------------------------------------------------- download
Download ==
  /\ ServiceOp
  /\ IF token = NoToken
     THEN Done("download", "error", << >>, "notLoggedIn", FALSE, 0)
     ELSE IF gistId = NoGist
     THEN Await("download", "list", NoGist, NoText, FALSE, 1)
     ELSE Await("download", "get", gistId, NoText, FALSE, 1)
  /\ UNCHANGED <<app, other, token, gistId, localStorage, gists>>

\* every gist of the list matches
MatchingAny == {g \in GistIds : Live(g)}

\* the gists of the list whose description is the backup's
Matching ==
  {g \in GistIds : Live(g) /\ gists[g].description = BackupDescription}

\* the copy of findGistByDescription that catches: it logs the failure and
\* returns, and download goes on without an id and returns []
ListFailsCaught(error) == Done("download", "ok", << >>, "", FALSE, call.sent)

\* findGistByDescription throws, its catch throws again, and download rejects
ListFails(error) == Done("download", "error", << >>, error, FALSE, call.sent)

\* the answer to the list request of findGistByDescription, or none when the
\* fetch itself rejects; find() takes the first match of the list, whose
\* order is the server's
FindGistByDescription ==
  /\ Waiting("download", "list")
  /\ \E response \in {"ok", "401", "403", "500", "lost"} :
       CASE response = "401" ->
              /\ UNCHANGED <<gistId, localStorage>>
              /\ ListFails("token")
         [] response = "403" ->
              /\ UNCHANGED <<gistId, localStorage>>
              /\ ListFails("permission")
         [] response = "500" ->
              /\ UNCHANGED <<gistId, localStorage>>
              /\ ListFails("list")
         [] response = "lost" ->
              /\ UNCHANGED <<gistId, localStorage>>
              /\ ListFails("network")
         [] OTHER ->
              IF Matching = {}
              THEN /\ UNCHANGED <<gistId, localStorage>>
                   /\ Done("download", "ok", << >>, "", FALSE, call.sent)
              ELSE \E g \in Matching :
                     /\ gistId' = g
                     /\ localStorage' = [localStorage EXCEPT !.gistId = g]
                     /\ Await("download", "get", g, NoText, FALSE, call.sent + 1)
  /\ UNCHANGED <<app, other, ops, token, gists>>

\* what JSON.parse says of a text: nothing when it parses; for a text that
\* stops short, the words of the engine that runs the page (the first two are
\* V8's, the third is SpiderMonkey's); for any other text that is not JSON,
\* the token it did not expect
ParseErrors(content) ==
  CASE content.kind = "cut" ->
         {"Unexpected end of JSON input", "Unterminated string in JSON",
          "JSON.parse: unexpected end of data"}
    [] content.kind = "garbage" -> {"Unexpected token"}
    [] OTHER -> {""}

\* message.includes('Unterminated') || message.includes('Unexpected end')
Truncated(message) ==
  message \in {"Unexpected end of JSON input", "Unterminated string in JSON"}

\* the copy of download that returns whatever JSON.parse returns
ParseContentUnvalidated(content, message) ==
  CASE content.kind \in {"empty", "blank"} ->
         [status |-> "ok", value |-> << >>, error |-> "", message |-> ""]
    [] content.kind = "html" ->
         [status |-> "error", value |-> << >>, error |-> "html", message |-> ""]
    [] content.kind = "array" ->
         [status |-> "ok", value |-> JsonParse(content), error |-> "",
          message |-> ""]
    [] content.kind = "object" ->
         [status |-> "ok", value |-> << >>, error |-> "", message |-> ""]
    [] OTHER ->
         [status |-> "error", value |-> << >>, error |-> "malformed",
          message |-> message]

\* what download makes of the content it has fetched, message being what
\* JSON.parse said of it
ParseContent(content, message) ==
  CASE content.kind \in {"empty", "blank"} ->
         [status |-> "ok", value |-> << >>, error |-> "", message |-> ""]
    [] content.kind = "html" ->
         [status |-> "error", value |-> << >>, error |-> "html", message |-> ""]
    [] content.kind = "array" ->
         [status |-> "ok", value |-> JsonParse(content), error |-> "",
          message |-> ""]
    [] content.kind = "object" ->
         [status |-> "error", value |-> << >>, error |-> "notArray",
          message |-> ""]
    [] OTHER ->
         [status |-> "error", value |-> << >>,
          error |-> IF Truncated(message) THEN "incomplete" ELSE "malformed",
          message |-> message]

Settle(r) ==
  DoneSaying("download", r.status, r.value, r.error, FALSE, call.sent, r.message)

\* the answer to the request for the gist document
GetGist ==
  /\ Waiting("download", "get")
  /\ \E response \in {"answer", "401", "500"} :
       LET status == IF response # "answer" THEN response
                     ELSE IF Live(call.arg) THEN "200" ELSE "404"
           file == GistFile(gists[call.arg].file)
       IN  CASE status = "404" ->
                  /\ gistId' = NoGist
                  /\ localStorage' = [localStorage EXCEPT !.gistId = NoGist]
                  /\ Done("download", "ok", << >>, "", FALSE, call.sent)
             [] status = "401" ->
                  /\ UNCHANGED <<gistId, localStorage>>
                  /\ Done("download", "error", << >>, "token", FALSE, call.sent)
             [] status = "500" ->
                  /\ UNCHANGED <<gistId, localStorage>>
                  /\ Done("download", "error", << >>, "http", FALSE, call.sent)
             [] OTHER ->
                  /\ UNCHANGED <<gistId, localStorage>>
                  /\ IF file.raw_url = NoText
                     THEN Done("download", "ok", << >>, "", FALSE, call.sent)
                     ELSE IF ContentFrom(file) = "raw_url"
                     THEN Await("download", "raw", call.arg, file.raw_url, FALSE,
                                call.sent + 1)
                     ELSE \E message \in ParseErrors(file.content) :
                            Settle(ParseContent(file.content, message))
  /\ UNCHANGED <<app, other, ops, token, gists>>

\* the answer to the request for raw_url, which names the version of the
\* file the gist document described
FetchRaw ==
  /\ Waiting("download", "raw")
  /\ \E response \in {"ok", "failed"} :
       IF response = "ok"
       THEN \E message \in ParseErrors(call.content) :
              Settle(ParseContent(call.content, message))
       ELSE Done("download", "error", << >>, "raw", FALSE, call.sent)
  /\ UNCHANGED <<app, other, ops, token, gistId, localStorage, gists>>

\* ------------------------------------------------------------- the account
\* what happens to the gists outside this page: the user's own edits on the
\* site and the uploads of other devices
RemoteOp ==
  /\ call = NoCall
  /\ ops < MaxOps
  /\ ops' = ops + 1
  /\ Event("account")

RemoteFiles ==
  {NoText, [kind |-> "empty"], [kind |-> "blank"], [kind |-> "html"],
   [kind |-> "object"], [kind |-> "cut"], [kind |-> "garbage"],
   JsonStringify(<<Rec(9, NoOrder, 3, 2)>>),
   JsonStringify(<<Rec(8, <<0>>, 3, 5)>>)}

RemoteDelete ==
  /\ RemoteOp
  /\ \E g \in GistIds :
       /\ Live(g)
       /\ gists' = [gists EXCEPT ![g] = Deleted]
  /\ UNCHANGED <<app, other, token, gistId, localStorage, call>>

RemoteWrite ==
  /\ RemoteOp
  /\ \E g \in GistIds, description \in {BackupDescription, "notes"},
        file \in RemoteFiles :
       /\ Live(g) \/ (UnusedIds # {} /\ g = NewId)
       /\ gists' = [gists EXCEPT ![g] = Gist(description, file)]
  /\ UNCHANGED <<app, other, token, gistId, localStorage, call>>

\* the user goes on with the page of the other device: its service is
\* constructed from the keys that device has persisted
OtherDevice ==
  /\ ServiceOp
  /\ localStorage' = other
  /\ other' = localStorage
  /\ token' = other.token
  /\ gistId' = other.gistId
  /\ Event("device")
  /\ UNCHANGED <<app, gists, call>>

\* the states the service and the account are found in when a session starts
InitialGists ==
  {[g \in GistIds |-> Unused],
   [g \in GistIds |-> IF g = 1 THEN Gist("notes", NoText) ELSE Unused],
   [g \in GistIds |->
      IF g = 1 THEN Gist(BackupDescription, JsonStringify(<<Rec(1, <<0>>, 1, 0)>>))
      ELSE Unused],
   [g \in GistIds |->
      IF g = 1 THEN Deleted
      ELSE IF g = 2
      THEN Gist(BackupDescription, JsonStringify(<<Rec(1, <<0>>, 1, 0)>>))
      ELSE Unused]}

InitSync ==
  /\ db = EmptyStore
  /\ sets = << >>
  /\ swapSourceId = NoId
  /\ view = "LIST"
  /\ activeSetId = NoId
  /\ editedSet = NoRec
  /\ isSyncing = FALSE
  /\ isSaving = FALSE
  /\ now = Clock0
  /\ tasks = [s \in Slots |-> Idle]
  /\ txq = << >>
  /\ lastTx = NoTx
  /\ last = NoLast
  /\ ops = 0
  /\ overlap = FALSE
  /\ exportFile = NoFile
  /\ token \in {NoToken, 1}
  /\ isLoggedIn = (token # NoToken)
  /\ gists \in InitialGists
  /\ gistId \in {NoGist} \cup {g \in GistIds : token # NoToken /\ gists[g] # Unused}
  /\ localStorage = [token |-> token, gistId |-> gistId]
  /\ other = NoDevice
  /\ call = NoCall
  /\ result = NoResult
  /\ selectedItemId = NoItem
  /\ isCompressing = FALSE
  /\ codec = NoCodec

NextSync ==
  \/ Construct
  \/ Login
  \/ LoginResponse
  \/ Logout
  \/ Upload
  \/ CreateGist
  \/ UpdateGist
  \/ Download
  \/ FindGistByDescription
  \/ GetGist
  \/ FetchRaw
  \/ RemoteDelete
  \/ RemoteWrite

\* the service called method after method, the account changing meanwhile
SpecSync == InitSync /\ [][NextSync]_vars

\* two devices that hold the same token; the account is empty or holds the
\* backup of an earlier upload, whose id a device may have cached
InitClients ==
  /\ db = EmptyStore
  /\ sets = << >>
  /\ swapSourceId = NoId
  /\ view = "LIST"
  /\ activeSetId = NoId
  /\ editedSet = NoRec
  /\ isSyncing = FALSE
  /\ isSaving = FALSE
  /\ now = Clock0
  /\ tasks = [s \in Slots |-> Idle]
  /\ txq = << >>
  /\ lastTx = NoTx
  /\ last = NoLast
  /\ ops = 0
  /\ overlap = FALSE
  /\ exportFile = NoFile
  /\ token = 1
  /\ isLoggedIn = TRUE
  /\ gists \in {g \in InitialGists :
                  \/ g[1].state = "unused"
                  \/ g[1].state = "live" /\ g[1].description = BackupDescription}
  /\ gistId \in {NoGist} \cup {g \in GistIds : gists[g] # Unused}
  /\ localStorage = [token |-> token, gistId |-> gistId]
  /\ other \in [token : {1}, gistId : {NoGist} \cup {g \in GistIds : gists[g] # Unused}]
  /\ call = NoCall
  /\ result = NoResult
  /\ selectedItemId = NoItem
  /\ isCompressing = FALSE
  /\ codec = NoCodec

\* the methods of the service, called on one device or the other; nobody
\* edits the gists by hand
NextClients ==
  \/ Login
  \/ LoginResponse
  \/ Logout
  \/ Upload
  \/ CreateGist
  \/ UpdateGist
  \/ Download
  \/ FindGistByDescription
  \/ GetGist
  \/ FetchRaw
  \/ OtherDevice

SpecClients == InitClients /\ [][NextClients]_vars

\* a session that starts with records stored and, when logged in, with the id
\* an earlier upload has cached
InitAccount ==
  /\ db \in InitialStores
  /\ sets = << >>
  /\ swapSourceId = NoId
  /\ view = "LIST"
  /\ activeSetId = NoId
  /\ editedSet = NoRec
  /\ isSyncing = FALSE
  /\ isSaving = FALSE
  /\ now = Clock0
  /\ tasks = [s \in Slots |->
                IF s = 1 THEN [Idle EXCEPT !.kind = "mount", !.pc = "load", !.store0 = db]
                ELSE Idle]
  /\ txq = <<Tx(1, "getAll", << >>, NoId)>>
  /\ lastTx = NoTx
  /\ last = NoLast
  /\ ops = 0
  /\ overlap = FALSE
  /\ exportFile = NoFile
  /\ token \in {NoToken, 1}
  /\ isLoggedIn = (token # NoToken)
  /\ gists \in InitialGists
  /\ gistId = (IF token # NoToken /\ gists[1] # Unused THEN 1 ELSE NoGist)
  /\ localStorage = [token |-> token, gistId |-> gistId]
  /\ other = NoDevice
  /\ call = NoCall
  /\ result = NoResult
  /\ selectedItemId = NoItem
  /\ isCompressing = FALSE
  /\ codec = NoCodec

\* the listing edited while the user logs in and out and uploads
NextAccount ==
  \/ MountSettle
  \/ HandleCreateNew
  \/ CreateSettle
  \/ HandleDeleteSet
  \/ DeleteSettle
  \/ HandleGitHubLogin
  \/ HandleGitHubLogout
  \/ Logout
  \/ Upload
  \/ CreateGist
  \/ UpdateGist

SpecAccount == InitAccount /\ [][NextAccount]_vars

\* the codec on its own, about to be called with an image and a limit
InitCodec ==
  /\ db = EmptyStore
  /\ sets = << >>
  /\ swapSourceId = NoId
  /\ view = "LIST"
  /\ activeSetId = NoId
  /\ editedSet = NoRec
  /\ isLoggedIn = FALSE
  /\ isSyncing = FALSE
  /\ isSaving = FALSE
  /\ now = Clock0
  /\ tasks = [s \in Slots |-> Idle]
  /\ txq = << >>
  /\ lastTx = NoTx
  /\ last = NoLast
  /\ ops = 0
  /\ overlap = FALSE
  /\ exportFile = NoFile
  /\ token = NoToken
  /\ gistId = NoGist
  /\ localStorage = LoggedOut
  /\ other = NoDevice
  /\ gists = [g \in GistIds |-> Unused]
  /\ call = NoCall
  /\ result = NoResult
  /\ selectedItemId = NoItem
  /\ isCompressing = FALSE
  /\ codec \in {Picked(img, maxWidth) : img \in SourceImages,
                                        maxWidth \in 1..MaxSide}

NextCodec ==
  \/ CompressImage
  \/ CompressExistingImage

SpecCodec == InitCodec /\ [][NextCodec]_vars

\* the images of the stored items: a JPEG wider than the limit, a PNG with a
\* transparent pixel, and a data URL that does not decode
StoredImages ==
  <<Image("jpeg", 3, 3, OpaqueRaster(9)), Image("png", 1, 1, <<0>>), Broken>>

\* items with the images attached, and one without
StoredItems ==
  [k \in 1..4 |-> IF k <= 3 THEN ItemWithImage(<<"item", 1, k - 1>>, k, StoredImages[k])
                  ELSE Item(<<"item", 1, k - 1>>, k)]

\* what earlier sessions can have left: nothing, a collection the editor
\* saved with images, the same collection restored from a file whose records
\* carry a stickers array too, and one whose stickers have no image
CompressStores ==
  { EmptyStore,
    StoreOf(<<WithItems(Rec(1, <<0>>, 1, 0), 4, StoredItems)>>),
    StoreOf(<<WithStickers(WithItems(Rec(1, <<0>>, 1, 0), 4, StoredItems),
                           SubSeq(StoredItems, 2, 4))>>),
    StoreOf(<<WithStickers(WithItems(Rec(1, <<0>>, 1, 0), 4, StoredItems),
                           <<StoredItems[4]>>)>>) }

InitCompress ==
  /\ db \in CompressStores
  /\ sets = << >>
  /\ swapSourceId = NoId
  /\ view = "LIST"
  /\ activeSetId = NoId
  /\ editedSet = NoRec
  /\ isLoggedIn = FALSE
  /\ isSyncing = FALSE
  /\ isSaving = FALSE
  /\ now = Clock0
  /\ tasks = [s \in Slots |->
                IF s = 1 THEN [Idle EXCEPT !.kind = "mount", !.pc = "load", !.store0 = db]
                ELSE Idle]
  /\ txq = <<Tx(1, "getAll", << >>, NoId)>>
  /\ lastTx = NoTx
  /\ last = NoLast
  /\ ops = 0
  /\ overlap \in BOOLEAN
  /\ exportFile = NoFile
  /\ token = NoToken
  /\ gistId = NoGist
  /\ localStorage = LoggedOut
  /\ other = NoDevice
  /\ gists = [g \in GistIds |-> Unused]
  /\ call = NoCall
  /\ result = NoResult
  /\ selectedItemId = NoItem
  /\ isCompressing = FALSE
  /\ codec = NoCodec

NextCompress ==
  \/ MountSettle
  \/ HandleCreateNew
  \/ CreateSettle
  \/ EditorBack
  \/ HandleDeleteSet
  \/ DeleteSettle
  \/ HandleCompressAll
  \/ CompressImages
  \/ CompressSettle

SpecCompress == InitCompress /\ [][NextCompress]_vars

\* what earlier sessions can have left for the editor: a collection as it
\* was created, and one saved with a single item
EditorStores ==
  { StoreOf(<<WithOrder(NewSet(1), 0)>>),
    StoreOf(<<WithItems(Rec(1, <<0>>, 1, 0), 1, SubSeq(NewItems(1), 1, 1))>>) }

InitEditor ==
  /\ db \in EditorStores
  /\ sets = << >>
  /\ swapSourceId = NoId
  /\ view = "LIST"
  /\ activeSetId = NoId
  /\ editedSet = NoRec
  /\ isLoggedIn = FALSE
  /\ isSyncing = FALSE
  /\ isSaving = FALSE
  /\ now = Clock0
  /\ tasks = [s \in Slots |->
                IF s = 1 THEN [Idle EXCEPT !.kind = "mount", !.pc = "load", !.store0 = db]
                ELSE Idle]
  /\ txq = <<Tx(1, "getAll", << >>, NoId)>>
  /\ lastTx = NoTx
  /\ last = NoLast
  /\ ops = 0
  /\ overlap = FALSE
  /\ exportFile = NoFile
  /\ token = NoToken
  /\ gistId = NoGist
  /\ localStorage = LoggedOut
  /\ other = NoDevice
  /\ gists = [g \in GistIds |-> Unused]
  /\ call = NoCall
  /\ result = NoResult
  /\ selectedItemId = NoItem
  /\ isCompressing = FALSE
  /\ codec = NoCodec

NextEditor ==
  \/ MountSettle
  \/ HandleCreateNew
  \/ CreateSettle
  \/ OpenEditor
  \/ EditorBack
  \/ HandleCountChange
  \/ HandleItemClick
  \/ HandleUpdateItem
  \/ HandleSaveClick
  \/ SaveSettle

SpecEditor == InitEditor /\ [][NextEditor]_vars

\* ---------------------------------------------------------- specifications
Next ==
  \/ MountSettle
  \/ HandleCreateNew
  \/ CreateSettle
  \/ OpenEditor
  \/ EditorEdit
  \/ EditorBack
  \/ HandleSaveClick
  \/ SaveSettle
  \/ HandleDeleteSet
  \/ DeleteSettle
  \/ SwapSelect
  \/ SwapDeselect
  \/ SwapStart
  \/ SwapMissing
  \/ SwapSettle
  \/ HandleGitHubLogin
  \/ HandleGitHubLogout
  \/ HandleDownloadFromGist
  \/ DownloadResolves
  \/ DownloadRejects
  \/ DownloadSaveSettle
  \/ HandleFileImport
  \/ ImportClearSettle
  \/ ImportSaveSettle
  \/ ImportRefreshSettle

\* one operation at a time: nothing is started while a handler is suspended
InitSeq == Init /\ ~overlap

Spec == InitSeq /\ [][Next]_vars

\* the user may act while handlers are suspended
InitRace == Init /\ overlap

SpecRace == InitRace /\ [][Next]_vars


\* the page after its mount effect has loaded the listing, the user logged
\* in and not waiting for a handler to end before the next click
InitOverlap ==
  /\ db \in InitialStores
  /\ sets = MountNormalize(GetAllStickerSets(db))
  /\ swapSourceId = NoId
  /\ view = "LIST"
  /\ activeSetId = NoId
  /\ editedSet = NoRec
  /\ isLoggedIn = TRUE
  /\ isSyncing = FALSE
  /\ isSaving = FALSE
  /\ now = Clock0
  /\ tasks = [s \in Slots |-> Idle]
  /\ txq = << >>
  /\ lastTx = [op |-> "getAll", owner |-> "mount", clear |-> FALSE,
               outcome |-> "complete", promise |-> "resolved"]
  /\ last = [kind |-> "mount", status |-> "ok", clear |-> FALSE]
  /\ ops = 0
  /\ overlap = TRUE
  /\ exportFile = NoFile
  /\ token = 1
  /\ gistId = NoGist
  /\ localStorage = [token |-> token, gistId |-> gistId]
  /\ other = NoDevice
  /\ gists = [g \in GistIds |-> Unused]
  /\ call = NoCall
  /\ result = NoResult
  /\ selectedItemId = NoItem
  /\ isCompressing = FALSE
  /\ codec = NoCodec

\* creates, swaps and downloads whose handlers may overlap
NextOverlap ==
  \/ HandleCreateNew
  \/ CreateSettle
  \/ SwapSelect
  \/ SwapDeselect
  \/ SwapStart
  \/ SwapMissing
  \/ SwapSettle
  \/ HandleDownloadFromGist
  \/ DownloadResolves
  \/ DownloadRejects
  \/ DownloadSaveSettle

SpecOverlap == InitOverlap /\ [][NextOverlap]_vars

\* the handlers that raise a busy flag, one at a time
InitBusy == InitCompress /\ ~overlap

NextBusy ==
  \/ MountSettle
  \/ HandleGitHubLogin
  \/ HandleDownloadFromGist
  \/ DownloadResolves
  \/ DownloadRejects
  \/ DownloadSaveSettle
  \/ HandleCompressAll
  \/ CompressImages
  \/ CompressSettle

\* the event loop runs the continuation of every promise that has settled,
\* and the object store ends every transaction one way or another: a step
\* of a suspended handler that can be taken is taken
FairBusy ==
  /\ WF_vars(MountSettle)
  /\ WF_vars(DownloadResolves)
  /\ WF_vars(DownloadRejects)
  /\ WF_vars(DownloadSaveSettle)
  /\ WF_vars(CompressImages)
  /\ WF_vars(CompressSettle)

SpecBusy == InitBusy /\ [][NextBusy]_vars /\ FairBusy

\* ------------------------------------------------------------------ claims
WriteOps == {"put", "putMany", "delete", "clear"}

\* the step that runs the transaction at the head of the queue
HeadRuns(op) == txq # << >> /\ txq[1].op = op /\ txq' # txq /\ lastTx'.op = op

Count(list, r) == Cardinality({i \in 1..Len(list) : list[i] = r})

SameBag(l1, l2) ==
  /\ Len(l1) = Len(l2)
  /\ \A r \in SeqToSet(l1) \cup SeqToSet(l2) : Count(l1, r) = Count(l2, r)

\* C1: saveStickerSets is atomic. When its promise resolves every record of
\* the batch is in the store, and when a put or the transaction fails the
\* store is what it was before the call: no part of a failed batch is visible.
C1_BatchAtomic ==
  [][HeadRuns("putMany") =>
       /\ lastTx'.promise = "resolved" => db' = StorePutAll(db, txq[1].batch)
       /\ lastTx'.promise # "resolved" => db' = db]_vars

\* C2: the promise of a Local Store write follows its transaction. It is
\* resolved only when the transaction committed, and it is rejected whenever
\* the transaction failed or aborted; it is never left pending.
C2_PromiseFollowsTransaction ==
  lastTx.op \in WriteOps =>
    /\ lastTx.promise = "resolved" => lastTx.outcome = "complete"
    /\ lastTx.outcome # "complete" => lastTx.promise = "rejected"

\* C6: getAllStickerSets returns every stored record, ascending by order when
\* every record has an order, and descending by createdAt as a whole when at
\* least one record has none.
C6_GetAllOrdering ==
  LET r == GetAllStickerSets(db)
  IN  /\ SameBag(r, StoreGetAll(db))
      /\ (\A i \in 1..Len(r) : HasOrder(r[i])) =>
           \A i, j \in 1..Len(r) : i < j => r[i].order[1] <= r[j].order[1]
      /\ (\E i \in 1..Len(r) : ~HasOrder(r[i])) =>
           \A i, j \in 1..Len(r) : i < j => r[i].createdAt >= r[j].createdAt


\* the step in which a collection swap's saveStickerSets settles
SwapSettles == HeadIs("swap", "save") /\ HeadRuns("putMany")

\* the listing with the order values of the entries at iA and iB exchanged
Exchanged(list, iA, iB) ==
  [i \in 1..Len(list) |->
     IF i = iA THEN [list[i] EXCEPT !.order = list[iB].order]
     ELSE IF i = iB THEN [list[i] EXCEPT !.order = list[iA].order]
     ELSE list[i]]

OrdersOf(list) == [i \in 1..Len(list) |-> list[i].order]

\* C3: a successful swap of two collections A and B that have orders oA and
\* oB leaves A with oB and B with oA, every other collection and every
\* non-order field as it was, and the multiset of order values unchanged.
C3_SwapExchangesOrders ==
  [][(SwapSettles /\ lastTx'.promise = "resolved") =>
       LET t  == tasks[txq[1].owner]
           iA == FindIndex(sets, t.src)
           iB == FindIndex(sets, t.arg)
       IN  (HasOrder(sets[iA]) /\ HasOrder(sets[iB])) =>
             /\ iA # iB
             /\ SameBag(sets', Exchanged(sets, iA, iB))
             /\ SameBag(OrdersOf(sets'), OrdersOf(sets))]_vars

\* a swap has succeeded on a listing of three collections that all have an
\* order, and the order values are no longer those of the stored catalog
C3_Witness ==
  /\ last.kind = "swap"
  /\ last.status = "ok"
  /\ Len(sets) = 3
  /\ \A i \in 1..Len(sets) : HasOrder(sets[i])
  /\ \E i \in 1..Len(sets) : sets[i].id # sets[i].order[1] + 1

\* C4: when saveStickerSets fails during a swap the in-memory listing stays
\* the pre-swap listing, the failure is reported and the selection is NONE.
C4_FailedSwapRollsBack ==
  [][(SwapSettles /\ lastTx'.outcome # "complete") =>
       /\ sets' = sets
       /\ last'.kind = "swap" /\ last'.status = "failed"
       /\ swapSourceId' = NoId]_vars


\* a session of create, editor, delete and swap operations only
NextListing ==
  \/ MountSettle
  \/ HandleCreateNew
  \/ CreateSettle
  \/ OpenEditor
  \/ EditorEdit
  \/ EditorBack
  \/ HandleSaveClick
  \/ SaveSettle
  \/ HandleDeleteSet
  \/ DeleteSettle
  \/ SwapSelect
  \/ SwapDeselect
  \/ SwapStart
  \/ SwapSettle

SpecListing == InitSeq /\ [][NextListing]_vars

\* the identifier and the order value at every position
IdOrders(list) == [i \in 1..Len(list) |-> <<list[i].id, list[i].order>>]

\* C5: once create, swap, delete and editor-save operations have settled,
\* the in-memory listing is the sequence getAllStickerSets() returns: the
\* same identifiers with the same order values at the same positions.
C5_ListingMatchesStore ==
  (Quiet /\ last.kind \in {"create", "swap", "delete", "save"}
         /\ last.status \in {"ok", "failed"}) =>
    IdOrders(sets) = IdOrders(GetAllStickerSets(db))

\* C7: after a successful download the store holds exactly the downloaded
\* records, and no record that existed only locally.
C7_DownloadOverwritesLocal ==
  [][(HeadIs("download", "save") /\ HeadRuns("putMany")
        /\ lastTx'.promise = "resolved") =>
       db' = StoreOf(txq[1].batch)]_vars


\* the step in which a write step of an import with the given policy settles
ImportStep(pc, op, clear) ==
  /\ HeadIs("import", pc)
  /\ HeadRuns(op)
  /\ tasks[txq[1].owner].clear = clear

StoredRecords(store) == {store[k] : k \in DOMAIN store}

\* what an import of D is to store under an identifier: the last record of D
\* that carries it, with its position in D as order when it has none
ImportedAs(D, i) ==
  LET n == CHOOSE n \in 1..Len(D) :
             D[n].id = i /\ \A m \in (n + 1)..Len(D) : D[m].id # i
  IN  IF D[n].order = NoOrder THEN [D[n] EXCEPT !.order = <<n - 1>>] ELSE D[n]

C9_ClearAlwaysFollowedByWrite ==
  [][(HeadRuns("clear") /\ lastTx'.promise = "resolved") =>
       LET s == txq[1].owner
       IN  /\ ImportStep("clear", "clear", TRUE)
           /\ tasks'[s].pc = "save"
           /\ txq'[Len(txq')] = Tx(s, "putMany", CleanData(tasks[s].batch), NoId)]_vars

\* C9 amended: clearAllStickerSets runs only as the first step of a restore
\* import. When it has succeeded and the imported array is not empty, the
\* bulk write of the imported records is the next transaction of that import;
\* when the array is empty no write follows and the store is left empty.
C9_ClearThenWriteUnlessEmpty ==
  [][HeadRuns("clear") =>
       LET s == txq[1].owner
           D == tasks[s].batch
       IN  /\ ImportStep("clear", "clear", TRUE)
           /\ (lastTx'.promise = "resolved" /\ Len(D) > 0) =>
                /\ tasks'[s].pc = "save"
                /\ txq'[Len(txq')] = Tx(s, "putMany", CleanData(D), NoId)
           /\ (lastTx'.promise = "resolved" /\ Len(D) = 0) =>
                /\ tasks'[s].pc = "refresh"
                /\ txq'[Len(txq')].op = "getAll"
                /\ db' = EmptyStore]_vars

\* a restore import of a non-empty array has cleared a store that held
\* records, and its bulk write is the transaction waiting
C9_Witness ==
  \E s \in Slots :
    /\ tasks[s].kind = "import" /\ tasks[s].clear /\ tasks[s].pc = "save"
    /\ tasks[s].store0 # EmptyStore
    /\ db = EmptyStore
    /\ lastTx.op = "clear" /\ lastTx.promise = "resolved"
    /\ txq # << >> /\ txq[1].op = "putMany" /\ txq[1].owner = s

\* C10 as stated: when the bulk write of a merge import of D has succeeded,
\* every record whose identifier does not occur in D is unchanged, and for
\* every identifier of D the stored record is a record of D.
C10_MergeStoresRecordsOfD ==
  [][(ImportStep("save", "putMany", FALSE) /\ lastTx'.promise = "resolved") =>
       LET D == tasks[txq[1].owner].batch
       IN  /\ \A k \in DOMAIN db \ IdsOf(D) : k \in DOMAIN db' /\ db'[k] = db[k]
           /\ \A k \in IdsOf(D) : k \in DOMAIN db' /\ db'[k] \in SeqToSet(D)]_vars

\* C10 amended: a merge import of D never changes a record whose identifier
\* does not occur in D, whether its bulk write succeeds or fails. When the
\* bulk write has succeeded, the store holds for every identifier of D the
\* last record of D with that identifier, with its position as order when it
\* had none, and no identifier beyond those stored before and those of D.
C10_MergeFrameAndEffect ==
  [][ImportStep("save", "putMany", FALSE) =>
       LET D == tasks[txq[1].owner].batch
       IN  /\ \A k \in DOMAIN db \ IdsOf(D) : k \in DOMAIN db' /\ db'[k] = db[k]
           /\ lastTx'.promise = "resolved" =>
                /\ DOMAIN db' = DOMAIN db \cup IdsOf(D)
                /\ \A k \in IdsOf(D) : db'[k] = ImportedAs(D, k)]_vars

\* a merge import has written a record over the stored record 1 of a store of
\* three records, the written record carries an order, and record 2 is the
\* record stored before
C10_Witness ==
  \E s \in Slots :
    /\ tasks[s].kind = "import" /\ ~tasks[s].clear /\ tasks[s].pc = "refresh"
    /\ Cardinality(DOMAIN tasks[s].store0) = 3
    /\ 1 \in DOMAIN db /\ db[1] # tasks[s].store0[1] /\ HasOrder(db[1])
    /\ 2 \in DOMAIN db /\ db[2] = tasks[s].store0[2]


\* a session of create, delete, swap, export and import operations
NextRoundTrip ==
  \/ MountSettle
  \/ HandleCreateNew
  \/ CreateSettle
  \/ HandleDeleteSet
  \/ DeleteSettle
  \/ SwapSelect
  \/ SwapStart
  \/ SwapSettle
  \/ HandleExport
  \/ ExportSettle
  \/ HandleFileImport
  \/ ImportClearSettle
  \/ ImportSaveSettle
  \/ ImportRefreshSettle

SpecRoundTrip == InitSeq /\ [][NextRoundTrip]_vars

\* the step in which a restore import of the exported file, whose clear and
\* bulk write have succeeded, reloads the listing
RestoresExport ==
  /\ ImportStep("refresh", "getAll", TRUE)
  /\ exportFile # NoFile
  /\ tasks[txq[1].owner].batch = JsonParse(exportFile.text)

\* the position of the identifier in what getAllStickerSets returns
PositionIn(store, i) == FindIndex(GetAllStickerSets(store), i)

C12_SelectionMachine ==
  [][/\ SwapSelect =>
          swapSourceId' \in IdsOf(sets) /\ sets' = sets /\ db' = db
     /\ SwapDeselect =>
          swapSourceId' = NoId /\ sets' = sets /\ db' = db
     /\ SwapSettles => swapSourceId' = NoId]_vars


\* ------------------------------------------------- claims on the service
LiveIds(gs) == {g \in GistIds : gs[g].state = "live"}

\* a step of upload
UploadActs == Upload \/ CreateGist \/ UpdateGist

\* C13: upload with no cached id asks for a creation, and when it succeeds
\* exactly one gist is new, it carries the backup description and the text
\* sent, and its id is cached in memory and in localStorage. Upload with a
\* cached id asks for an update of that gist, and when it succeeds only the
\* file of that gist has changed and no gist is new. No other step of upload
\* changes the cached id.
C13_UploadCreatesOrUpdates ==
  [][/\ (Upload /\ call'.op = "upload") =>
          /\ gistId = NoGist => call'.pc = "post"
          /\ gistId # NoGist => call'.pc = "patch" /\ call'.arg = gistId
     /\ (CreateGist /\ result'.status = "ok") =>
          \E g \in GistIds :
            /\ gists[g].state = "unused"
            /\ gists' = [gists EXCEPT ![g] =
                           [state |-> "live",
                            description |-> "L'Atelier de Stickers - Backup",
                            file |-> call.content]]
            /\ gistId' = g
            /\ localStorage'.gistId = g
     /\ (UpdateGist /\ result'.status = "ok") =>
          /\ gists' = [gists EXCEPT ![gistId].file = call.content]
          /\ LiveIds(gists') = LiveIds(gists)
     /\ (UploadActs /\ (gistId' # gistId \/ localStorage' # localStorage)) =>
          CreateGist /\ result'.status = "ok"]_vars

\* the first method of the session was an upload without cached id: it has
\* created gist 2 beside gist 1 and cached its id
C13_Witness ==
  /\ ops = 1
  /\ result.op = "upload" /\ result.status = "ok"
  /\ Live(1) /\ Live(2)
  /\ gistId = 2 /\ localStorage.gistId = 2
  /\ gists[2].description = BackupDescription
  /\ gists[2].file = result.content


\* the bytes of the text upload makes of a listing
SerializedSize(stickerSets) == SizeInBytes(JsonStringify(stickerSets))

\* C14: for a logged-in service, upload of a listing whose text is larger
\* than 10 MiB rejects with the size error without having made a request,
\* and leaves the gists and the cached id as they were; a text larger than
\* 5 MiB and not larger than 10 MiB is sent with the warning written, and a
\* text of at most 5 MiB is sent without warning.
C14_SizeCeiling ==
  [][\A stickerSets \in UploadCatalogs :
       (Upload /\ UploadStep(stickerSets) /\ token # NoToken) =>
          LET size == SerializedSize(stickerSets)
          IN  /\ size > 10 * 1048576 =>
                   /\ call' = NoCall
                   /\ result'.status = "error" /\ result'.error = "tooLarge"
                   /\ result'.sent = 0
                   /\ gists' = gists /\ gistId' = gistId
                   /\ localStorage' = localStorage
              /\ (size > 5 * 1048576 /\ size <= 10 * 1048576) =>
                   /\ call'.op = "upload" /\ call'.sent = 1
                   /\ call'.content = JsonStringify(stickerSets)
                   /\ call'.warned
              /\ size <= 5 * 1048576 =>
                   /\ call'.op = "upload" /\ call'.sent = 1
                   /\ ~call'.warned]_vars

\* the first method of the session, an upload with a live gist cached, was
\* rejected for its size before any request
C14_Witness ==
  /\ ops = 1
  /\ result.op = "upload" /\ result.error = "tooLarge" /\ result.sent = 0
  /\ gistId # NoGist /\ Live(gistId)
  /\ call = NoCall


\* an upload has just resolved and nothing has happened since
JustUploaded == result.op = "upload" /\ result.status = "ok"

\* C15: an upload that follows a successful upload asks for an update of the
\* gist of the first one; when it sends the same text and succeeds, the gists
\* are what the first upload left: no gist is new and the file of the backup
\* is the text of the first upload.
C15_RepeatedUpload ==
  [][/\ (Upload /\ JustUploaded /\ call'.op = "upload") =>
          call'.pc = "patch" /\ call'.arg = gistId
     /\ (UploadActs /\ JustUploaded /\ call.op = "upload"
           /\ call.content = result.content /\ result'.status = "ok") =>
          /\ gists' = gists
          /\ gistId' = gistId
          /\ gists'[gistId].file = result.content
          /\ result'.again]_vars

\* the same listing of one collection has been uploaded twice with success:
\* the account holds one gist and its file is the text sent
C15_Witness ==
  /\ result.op = "upload" /\ result.status = "ok" /\ result.again
  /\ Len(result.content.data) > 0
  /\ Cardinality(LiveIds(gists)) = 1
  /\ Live(gistId)
  /\ gists[gistId].file = result.content


\* a step that ends download
DownloadEnds == call.op = "download" /\ call' = NoCall

\* a download has just resolved and nothing has happened since
JustDownloaded == result.op = "download" /\ result.status = "ok"

\* C16: a download that follows a download, nothing having happened in
\* between, resolves with the catalog the first one resolved with, whatever
\* the cached id was: none, the id of a gist, or the id of a deleted gist.
C16_RepeatedDownload ==
  [][(DownloadEnds /\ JustDownloaded /\ result'.status = "ok") =>
       result'.value = result.value]_vars


\* a gist of the account carries exactly the description of the backup
IsBackup(g) ==
  /\ gists[g].state = "live"
  /\ gists[g].description = "L'Atelier de Stickers - Backup"

HasBackup == \E g \in GistIds : IsBackup(g)

\* C17: when no id is cached and no gist of the list carries exactly the
\* backup description, download ends at the list request, with the empty
\* catalog unless the request itself failed, and caches nothing; when a gist
\* matches, the id of a matching gist is cached in memory and in
\* localStorage and that gist is requested. When the gist of the cached id
\* does not exist, download resolves with the empty catalog and the cached
\* id is cleared, unless the request itself failed.
C17_NoBackupIsEmpty ==
  [][/\ (FindGistByDescription /\ ~HasBackup) =>
          /\ call' = NoCall
          /\ result'.status = "ok" => result'.value = << >>
          /\ result'.status = "error" =>
               result'.error \in {"token", "permission", "list", "network"}
          /\ gistId' = NoGist /\ localStorage'.gistId = NoGist
     /\ (FindGistByDescription /\ HasBackup) =>
          IF call' = NoCall
          THEN result'.status = "error" /\ gistId' = NoGist
          ELSE /\ IsBackup(gistId')
               /\ localStorage'.gistId = gistId'
               /\ call'.pc = "get" /\ call'.arg = gistId'
     /\ (GetGist /\ gists[call.arg].state # "live") =>
          /\ call' = NoCall
          /\ result'.status = "ok" =>
               /\ result'.value = << >>
               /\ gistId' = NoGist /\ localStorage'.gistId = NoGist
          /\ result'.status = "error" =>
               result'.error \in {"token", "http"} /\ gistId' = gistId]_vars

\* a download has found the gist of its cached id deleted: it has resolved
\* with the empty catalog after one request and the cached id is cleared,
\* while a backup exists in the account
C17_Witness ==
  /\ result.op = "download" /\ result.status = "ok"
  /\ result.value = << >> /\ result.sent = 1
  /\ gistId = NoGist /\ localStorage.gistId = NoGist
  /\ \E g \in GistIds : gists[g].state = "deleted"
  /\ HasBackup


\* the content embedded in the gist document is a strict prefix of the file
EmbeddedIsPrefix(file) ==
  file # NoText /\ GistFile(file).content # GistFile(file).raw_url

\* C18: for a gist whose embedded content is a strict prefix of its file,
\* download does not end on the gist document unless the request failed: it
\* fetches the raw file, and when it resolves, its value is the data of the
\* whole file; it never ends on the text of the prefix.
C18_TruncatedFetchesRaw ==
  [][/\ (GetGist /\ Live(call.arg) /\ EmbeddedIsPrefix(gists[call.arg].file)) =>
          IF call' = NoCall
          THEN result'.status = "error" /\ result'.error \in {"token", "http"}
          ELSE call'.pc = "raw" /\ call'.content = gists[call.arg].file
     /\ FetchRaw =>
          /\ EmbeddedIsPrefix(call.content)
          /\ result'.status = "ok" => result'.value = JsonParse(call.content)
          /\ result'.status = "error" => result'.error = "raw"]_vars

\* a download has resolved, after a second fetch, with the data of a file
\* larger than what the gist document embeds
C18_Witness ==
  /\ result.op = "download" /\ result.status = "ok"
  /\ result.sent >= 2
  /\ Live(gistId)
  /\ EmbeddedIsPrefix(gists[gistId].file)
  /\ Len(result.value) > 0
  /\ result.value = JsonParse(gists[gistId].file)


\* C19: when the content download has fetched is empty, is white space only
\* or begins with HTML markup, download rejects and resolves to no catalog.
C19_RejectsEmptyAndHtml ==
  [][(GetGist /\ Live(call.arg)
        /\ gists[call.arg].file.kind \in {"empty", "blank", "html"}) =>
       call' = NoCall /\ result'.status = "error"]_vars

\* C20: when the identity check does not answer with success, login rejects
\* and the token in memory and the persisted token are what they were; when
\* it answers with success the token is stored in both places, isLoggedIn()
\* is true, and the next upload or download is not refused for want of a
\* login.
C20_LoginStoresOnSuccessOnly ==
  [][/\ LoginResponse =>
          /\ result'.status = "error" =>
               token' = token /\ localStorage' = localStorage
          /\ result'.status = "ok" =>
               /\ token' = call.arg /\ localStorage'.token = call.arg
               /\ token' # NoToken
               /\ gistId' = gistId
     /\ ((Upload \/ Download) /\ result.op = "login" /\ result.status = "ok") =>
          result'.error # "notLoggedIn"]_vars

\* the first method of the session was a login that was rejected: the token
\* stored before is still the one in memory and in localStorage
C20_Witness ==
  /\ ops = 1
  /\ result.op = "login" /\ result.status = "error"
  /\ token = 1 /\ localStorage.token = 1


\* a step of logout: the method of the service, or the handler of the page
\* that calls it
LogoutActs == Logout \/ HandleGitHubLogout

\* C21: logout leaves no token and no cached gist id, in memory and in
\* localStorage, and performs no Local Store operation: the stored records,
\* the in-memory listing, the queue of transactions and the gists of the
\* account are what they were.
C21_LogoutClearsAndKeepsStore ==
  [][LogoutActs =>
       /\ token' = 0 /\ gistId' = 0
       /\ localStorage'.token = 0 /\ localStorage'.gistId = 0
       /\ db' = db /\ sets' = sets
       /\ txq' = txq /\ tasks' = tasks /\ lastTx' = lastTx
       /\ gists' = gists]_vars

\* the first operation of the session was a logout with the id of the backup
\* cached: nothing is cached any more, the backup is still in the account and
\* the three stored collections are listed
C21_Witness ==
  /\ ops = 1
  /\ result.op = "logout"
  /\ token = NoToken /\ gistId = NoGist /\ localStorage = LoggedOut
  /\ \E g \in GistIds : gists[g].state = "live"
  /\ Len(sets) = 3 /\ Cardinality(DOMAIN db) = 3


\* ---------------------------------------------------- claims on the codec
\* h * maxWidth / w rounded to the nearest integer
RoundedHeight(w, h, maxWidth) == (2 * h * maxWidth + w) \div (2 * w)

Distance(a, b) == IF a >= b THEN a - b ELSE b - a

\* the codec has resolved
CodecResolved ==
  /\ codec.op \in {"compressImage", "compressExistingImage"}
  /\ codec.result.status = "resolved"

\* C23: for a source of w by h and a limit maxWidth the output is an image;
\* when w > maxWidth it is maxWidth wide and round(h * maxWidth / w) high
\* within one pixel, when w <= maxWidth it is w by h; its width is never
\* larger than maxWidth.
C23_OutputDimensions ==
  CodecResolved =>
    LET w == codec.source.width
        h == codec.source.height
        m == codec.maxWidth
        out == codec.result.url
    IN  /\ out.format \in {"png", "jpeg"}
        /\ w > m => /\ out.width = m
                    /\ Distance(out.height, RoundedHeight(w, h, m)) <= 1
        /\ w <= m => out.width = w /\ out.height = h
        /\ out.width <= m

\* C24: the codec encodes to PNG, without quality, exactly when the source
\* is a PNG and at least one pixel of the raster it has drawn has alpha
\* below 255; otherwise it encodes to JPEG at the quality given, on an
\* opaque background.
C24_LosslessIffPngWithAlpha ==
  CodecResolved =>
    LET lossless == /\ codec.source.format = "png"
                    /\ \E i \in 1..Len(codec.drawn) : codec.drawn[i] < 255
    IN  IF lossless
        THEN codec.result.type = "png"
        ELSE /\ codec.result.type = "jpeg"
             /\ codec.result.quality = 85
             /\ codec.result.background \in {"white", "black"}

\* a compress-all pass ends: in the handler before its first await, or when
\* the bulk write has settled
PassEnds == (HandleCompressAll /\ tasks' = tasks) \/ CompressSettle

\* the listing the pass started from
PassBefore ==
  IF HeadIs("compress", "save") THEN tasks[txq[1].owner].snap ELSE sets

\* an item after the pass: its image is a compressed output of the image it
\* had, or the image it had when the compression can fail, and no other field
\* differs
CompressedItem(old, new) ==
  /\ [new EXCEPT !.imageUrl = old.imageUrl] = old
  /\ \/ ~HasImage(old) /\ new = old
     \/ /\ HasImage(old)
        /\ \E r \in CompressedAs(old.imageUrl) :
             IF r.status = "resolved" THEN new.imageUrl = r.url ELSE new = old

\* C22: a compress-all pass over collections that hold images, whose bulk
\* write does not fail, ends normally whether or not single images fail to
\* compress: every image that failed is kept, every other image is replaced
\* by its compressed output, no other field of a collection changes, and the
\* collections of the listing are the records of the store
C22_CompressAllSurvivesImageFailure ==
  [][(/\ PassEnds
      /\ \E i \in 1..Len(PassBefore) :
           \E k \in 1..Len(PassBefore[i].items) : HasImage(PassBefore[i].items[k])
      /\ last'.status \notin {"failed", "hung"})
     => /\ last'.status = "ok"
        /\ ~isCompressing'
        /\ Len(sets') = Len(PassBefore)
        /\ \A i \in 1..Len(PassBefore) :
             LET old == PassBefore[i]
                 new == sets'[i]
             IN  /\ DOMAIN new = DOMAIN old
                 /\ [new EXCEPT !.items = old.items] = old
                 /\ Len(new.items) = Len(old.items)
                 /\ \A k \in 1..Len(old.items) :
                      CompressedItem(old.items[k], new.items[k])
                 /\ new.id \in DOMAIN db'
                 /\ db'[new.id] = new]_vars

\* C25: when the bulk write of a create resolves, the new collection is
\* stored with order 0, every collection of the listing the create started
\* from is stored with its previous order plus one, the listing is the new
\* collection followed by those collections in their previous sequence, and
\* getAllStickerSets() returns the new collection first; when the bulk write
\* does not resolve, the listing is unchanged
C25_CreateRewritesListing ==
  [][CreateSettle =>
       LET t == tasks[txq[1].owner]
           before == t.snap
       IN  IF last'.status = "ok"
           THEN /\ t.arg \in DOMAIN db'
                /\ db'[t.arg].order = <<0>>
                /\ \A i \in 1..Len(before) :
                     /\ before[i].id \in DOMAIN db'
                     /\ db'[before[i].id].order = <<OrZero(before[i]) + 1>>
                /\ Len(sets') = Len(before) + 1
                /\ sets'[1].id = t.arg
                /\ \A i \in 1..Len(before) : sets'[i + 1].id = before[i].id
                /\ GetAllStickerSets(db')[1].id = t.arg
           ELSE sets' = sets]_vars

\* no two positions of a sequence of records or items hold the same id
DistinctIds(s) == \A i, j \in 1..Len(s) : s[i].id = s[j].id => i = j

\* C26: a create whose bulk write resolves leaves a listing in which no two
\* collections share an identifier, and a store with one record more than
\* before, also when the clock has not advanced since the previous create
C26_CollectionIdsUnique ==
  [][(CreateSettle /\ last'.status = "ok")
     => /\ DistinctIds(sets')
        /\ Cardinality(DOMAIN db') = Cardinality(DOMAIN db) + 1]_vars

\* the record of position i of an imported array with the order the import
\* is to give it
OrderedAt(D, i) ==
  [D[i] EXCEPT !.order = IF HasOrder(D[i]) THEN D[i].order ELSE <<i - 1>>]

\* C30: the bulk write of an import of D, restore or merge, hands every
\* record of D to the store with an order: its position in D when it had
\* none, its own order otherwise. Every record the write stores or replaces
\* is one of these, and when the write has succeeded the record stored for
\* an identifier of D is the last record of D with that identifier, ordered
\* in this way
C30_ImportFillsMissingOrder ==
  [][(HeadIs("import", "save") /\ HeadRuns("putMany")) =>
       LET D == tasks[txq[1].owner].batch
           written == txq[1].batch
       IN  /\ Len(written) = Len(D)
           /\ \A i \in 1..Len(D) : written[i] = OrderedAt(D, i) /\ HasOrder(written[i])
           /\ \A k \in DOMAIN db' :
                (k \notin DOMAIN db \/ db'[k] # db[k]) =>
                   \E i \in 1..Len(D) : db'[k] = OrderedAt(D, i)
           /\ lastTx'.promise = "resolved" =>
                \A i \in 1..Len(D) :
                  (\A m \in (i + 1)..Len(D) : D[m].id # D[i].id) =>
                     /\ D[i].id \in DOMAIN db'
                     /\ db'[D[i].id] = OrderedAt(D, i)]_vars

\* an import has stored the second record of its array, which had no order,
\* with order 1
C30_Witness ==
  \E s \in Slots :
    /\ tasks[s].kind = "import" /\ tasks[s].pc = "refresh"
    /\ lastTx.op = "putMany" /\ lastTx.promise = "resolved"
    /\ Len(tasks[s].batch) = 2
    /\ ~HasOrder(tasks[s].batch[2])
    /\ tasks[s].batch[2].id \in DOMAIN db
    /\ db[tasks[s].batch[2].id] = WithOrder(tasks[s].batch[2], 1)

\* C27: every count change of the editor leaves an item sequence as long as
\* itemCount; a truncation keeps the first newCount items as they were, a pad
\* keeps every existing item as it was; and a created collection has as many
\* items as its itemCount
C27_CountChangeKeepsLength ==
  [][/\ HandleCountChange =>
          LET old == editedSet.items
              new == editedSet'.items
              newCount == editedSet'.itemCount
          IN  /\ newCount \in COUNT_OPTIONS
              /\ Len(new) = newCount
              /\ newCount <= Len(old) => new = SubSeq(old, 1, newCount)
              /\ newCount >= Len(old) => SubSeq(new, 1, Len(old)) = old
     /\ (CreateSettle /\ last'.status = "ok") =>
          Len(sets'[1].items) = sets'[1].itemCount]_vars

\* the editor holds a collection of three items that was truncated to two and
\* padded again: the first two items are the created ones, the third is new
C27_Witness ==
  /\ ~ListShown
  /\ editedSet.itemCount = 3
  /\ Len(editedSet.items) = 3
  /\ editedSet.items[1] = NewItems(1)[1]
  /\ editedSet.items[2] = NewItems(1)[2]
  /\ editedSet.items[3].id[1] = "new"

\* C28: no two items of a collection share an identifier, in the editor's
\* copy and in the listing, whatever creations, swaps, truncations and pads
\* the session has seen and whatever the clock returned to them
C28_ItemIdsUnique ==
  /\ ~ListShown => DistinctIds(editedSet.items)
  /\ \A i \in 1..Len(sets) : DistinctIds(sets[i].items)

\* the sequence with the items of two positions exchanged
ItemsExchanged(items, p, q) ==
  [k \in 1..Len(items) |->
     IF k = p THEN items[q] ELSE IF k = q THEN items[p] ELSE items[k]]

\* C29: with the item of position p selected, a click on the item of another
\* position q exchanges the two positions of the editor's sequence and
\* nothing else, resets the selection, and leaves the store and its queue of
\* transactions untouched; the store changes in the editor only through the
\* put of the whole collection that the save action places
C29_ItemSwapIsIndexExchange ==
  [][/\ \A p, q \in 1..Len(editedSet.items) :
          (/\ selectedItemId = <<editedSet.items[p].id>>
           /\ p # q
           /\ ItemClickAt(q))
          => /\ editedSet' = [editedSet EXCEPT !.items = ItemsExchanged(editedSet.items, p, q)]
             /\ selectedItemId' = NoItem
             /\ db' = db
             /\ txq' = txq
     /\ (~ListShown /\ db' # db) =>
          /\ HeadIs("save", "save")
          /\ db' = StorePut(db, txq[1].batch[1])]_vars

\* the text a download that waits for the gist document or for raw_url is
\* about to hand to JSON.parse
C31_Fetched ==
  IF call.pc = "raw" THEN call.content
  ELSE GistFile(gists[call.arg].file).content

\* the step ends a download that had fetched a text
C31_Ends ==
  /\ call.op = "download"
  /\ call.pc \in {"get", "raw"}
  /\ call.pc = "get" => Live(call.arg) /\ ~GistFile(gists[call.arg].file).truncated
  /\ call' = NoCall

C32_FailedListingRejects ==
  [][(call.op = "download" /\ call.pc = "list" /\ call' = NoCall) =>
       /\ result'.op = "download"
       /\ result'.status = "ok" => Matching = {} /\ result'.value = << >>
       /\ Matching # {} =>
            /\ result'.status = "error"
            /\ result'.error \in {"token", "permission", "list", "network"}
       /\ gistId' = gistId]_vars

\* the listing got no answer while the account holds a backup: the download
\* has rejected after its one request
C32_Witness ==
  /\ result.op = "download"
  /\ result.error = "network"
  /\ result.sent = 1
  /\ Matching # {}
  /\ gistId = NoGist

\* C34: when the devices that hold the token upload one after the other,
\* every upload that resolves leaves the account with one gist that carries
\* the backup description, and the file of that gist is the text this upload
\* sent: the upload processed last wins, nothing of the earlier one is kept
C34_LastUploadWins ==
  (result.op = "upload" /\ result.status = "ok") =>
     \E g \in GistIds :
       /\ Matching = {g}
       /\ gists[g].file = result.content

\* C36: whatever the devices that hold the token do through login, upload,
\* download and logout, at most one gist of the account carries the backup
\* description
C36_AtMostOneBackupGist == Cardinality(Matching) <= 1

\* C40: a download handler that ends because download() rejected, or because
\* it resolved with the empty array, leaves the store and the listing as they
\* were when the handler was started
C40_FailedDownloadKeepsData ==
  [][\A s \in Slots :
       (/\ tasks[s].kind = "download"
        /\ tasks'[s] = Idle
        /\ tasks[s].pc = "net" \/ tasks[s].batch = << >>)
       => /\ db' = tasks[s].store0
          /\ sets' = tasks[s].snap]_vars

\* a download has found no backup while the store and the listing hold
\* records
C40_Witness ==
  /\ last.kind = "download"
  /\ last.status = "empty"
  /\ sets # << >>
  /\ DOMAIN db # {}
  /\ \A s \in Slots : tasks[s] = Idle

\* C38: whenever a collection is selected as the source of a swap, the
\* listing holds a collection with that id
C38_SourceIsListed ==
  swapSourceId # NoId => swapSourceId \in IdsOf(sets)

\* the records of the store all have a numeric order, and no two the same
C39_OrdersDistinct(store) ==
  \A a, b \in DOMAIN store :
    /\ HasOrder(store[a])
    /\ a # b => store[a].order # store[b].order

\* a session that finds such a store
InitOrdered == InitSeq /\ C39_OrdersDistinct(db)

SpecOrdered == InitOrdered /\ [][NextListing]_vars

\* C39: from a store whose records have pairwise distinct numeric orders,
\* create, swap, delete and editor-save operations that do not overlap keep
\* the orders of the stored records pairwise distinct
C39_StoredOrdersStayDistinct == C39_OrdersDistinct(db)

\* C37: creates and swaps may be clicked while the save of an earlier one is
\* pending; once every handler has ended, the last one with its save resolved,
\* the listing holds a collection for every stored record and is the sequence
\* getAllStickerSets() returns
C37_OverlappingSavesAgree ==
  (Quiet /\ last.kind \in {"create", "swap"} /\ last.status = "ok") =>
    /\ IdsOf(sets) = DOMAIN db
    /\ IdOrders(sets) = IdOrders(GetAllStickerSets(db))

\* C35: download and the write that follows it are two steps. When
\* download() resolves with records, the handler's putMany is queued behind
\* the transactions already waiting, the putMany of a swap clicked during
\* the download among them; the store changes only when the transaction at
\* the head of the queue runs, and a putMany that resolves is applied to the
\* store as the transactions before it have left it
C35_DownloadThenWriteNotAtomic ==
  [][/\ \A s \in Slots :
          (tasks[s].kind = "download" /\ tasks[s].pc = "net" /\ tasks'[s] # Idle
             /\ tasks'[s] # tasks[s])
          => /\ tasks'[s].pc = "save"
             /\ txq' = Append(txq, Tx(s, "putMany", tasks'[s].batch, NoId))
             /\ db' = db /\ sets' = sets
     /\ db' # db => txq # << >> /\ txq' = Tail(txq)
     /\ (txq # << >> /\ txq' = Tail(txq) /\ txq[1].op = "putMany"
           /\ lastTx'.promise = "resolved")
          => db' = StorePutAll(db, txq[1].batch)]_vars

\* download() has resolved and the handler's putMany waits behind the putMany
\* of a swap that was clicked while the download was in flight: the download
\* had taken the first slot, the swap found it taken
C35_Witness ==
  /\ Len(txq) = 2
  /\ txq[1].owner = 2
  /\ txq[2].owner = 1
  /\ tasks[txq[1].owner].kind = "swap"
  /\ txq[1].op = "putMany"
  /\ tasks[txq[2].owner].kind = "download"
  /\ tasks[txq[2].owner].pc = "save"
  /\ txq[2].op = "putMany"

\* C33: a busy flag that a handler has raised falls again: whenever
\* isSyncing is true it is false later, and so is isCompressing
C33_BusyFlagsFall ==
  /\ isSyncing ~> ~isSyncing
  /\ isCompressing ~> ~isCompressing

=============================================================================
